---- MODULE Spec2Model ----
(***************************************************************************)
(* Wave-stage classification and composite scoring of                      *)
(* src/implementations/StockAI/analysis2.py                                *)
(* (class EnhancedWaveTransitionAnalyzerV3).                               *)
(*                                                                         *)
(* Numbers.  The program computes in floating point; the model computes    *)
(* in exact rationals [n |-> numerator, d |-> denominator] with d > 0.     *)
(* The value with d = 0 is NaN (pandas' "absent"): every comparison with   *)
(* it is false and every arithmetic operation on it gives NaN, as in       *)
(* Python.                                                                 *)
(***************************************************************************)
EXTENDS Integers, Sequences, FiniteSets, TLC

VARIABLES
    row,              \* SpecClassify: the indicator row handed to the classifier
    stage,            \* SpecClassify: what _classify_wave_stage returned, or NoValue
    cpc,              \* SpecClassify: "input" before the call, "classified" after
    prices_df,        \* self.prices_df: the price rows, sorted by ticker and date
    institutional_df, \* self.institutional_df: NoTable or the flow rows
    last,             \* outcome of the most recent analyze_stock call, or NoValue
    pc,               \* analyze_all_stocks: "idle", "loop" or "done"
    tickers,          \* analyze_all_stocks: the tickers the loop iterates
    idx,              \* analyze_all_stocks: position of the loop in tickers
    results,          \* analyze_all_stocks: the list the loop appends to
    result_df,        \* analyze_all_stocks: the returned table (once pc = "done")
    summary,          \* main: the summary it logs over the returned table, or NoValue
    stats,            \* dashboard: what get_summary_stats returns for the table, or NoValue
    earlier,          \* the tables earlier runs of analyze_all_stocks returned
    sort_memo,        \* the sort so far: the [in, out] pairs of its calls
    flow_df,          \* SpecFlow: the parsed investor rows of one instrument
    metrics,          \* SpecFlow: the dict calculate_trend_metrics returned, or NoValue
    sd_result,        \* SpecFlow: what calculate_supply_demand_score returned, or NoValue
    fpc,              \* SpecFlow: "rows", "metrics" or "scored"
    series,           \* SpecIndicators: the price rows of one instrument, in date order
    indicators,       \* SpecIndicators: the derived rows, one per bar, or NoValue
    ipc,              \* SpecIndicators: "input", "derived" or "raised"
    fscore,           \* SpecFundamental: what _calculate_fundamental_score returned
    upc,              \* SpecFundamental: "input" or "scored"
    argv,             \* SpecPipeline: the arguments main parsed, or NoValue
    skip_ai,          \* run_full_pipeline: its local of that name
    pipeline_results, \* run_full_pipeline: its dict `results`, or NoValue
    launched,         \* run_script: the calls made so far, with their outcomes
    ppc               \* run_full_pipeline and main: the statement reached

NoValue == [none |-> TRUE]

cvars == <<row, stage, cpc>>
avars == <<prices_df, institutional_df, last, pc, tickers, idx, results, result_df>>
mvars == <<summary, stats>>
rvars == <<earlier, sort_memo>>
fvars == <<flow_df, metrics, sd_result, fpc>>
dvars == <<series, indicators, ipc, fscore, upc>>
pvars == <<argv, skip_ai, pipeline_results, launched, ppc>>
vars  == <<row, stage, cpc, prices_df, institutional_df, last, pc, tickers, idx, results, result_df,
           summary, stats, earlier, sort_memo, flow_df, metrics, sd_result, fpc,
           series, indicators, ipc, fscore, upc,
           argv, skip_ai, pipeline_results, launched, ppc>>

\* the flow scorer is not in use
FlowUnused ==
    /\ flow_df = NoValue
    /\ metrics = NoValue
    /\ sd_result = NoValue
    /\ fpc = "unused"

\* no indicator table is being derived, no fundamental score computed
DerivedUnused ==
    /\ series = <<>>
    /\ indicators = NoValue
    /\ ipc = "unused"
    /\ fscore = NoValue
    /\ upc = "unused"

\* no pipeline is being run
PipelineUnused ==
    /\ argv = NoValue
    /\ skip_ai = FALSE
    /\ pipeline_results = NoValue
    /\ launched = <<>>
    /\ ppc = "unused"


(***************************************************************************)
(* Exact rationals with NaN                                                *)
(***************************************************************************)
RECURSIVE GCD(_, _)
GCD(a, b) == IF b = 0 THEN a ELSE GCD(b, a % b)

Abs(i) == IF i < 0 THEN -i ELSE i

NaN == [n |-> 0, d |-> 0]

\* n/d in lowest terms, d > 0
Q(n, d) ==
    LET g == GCD(Abs(n), Abs(d))
        s == IF d < 0 THEN -1 ELSE 1
    IN  [n |-> s * (n \div g), d |-> s * (d \div g)]

Num(i) == [n |-> i, d |-> 1]

IsNaN(x) == x.d = 0

Add(a, b) == IF IsNaN(a) \/ IsNaN(b) THEN NaN ELSE Q(a.n * b.d + b.n * a.d, a.d * b.d)
Sub(a, b) == IF IsNaN(a) \/ IsNaN(b) THEN NaN ELSE Q(a.n * b.d - b.n * a.d, a.d * b.d)
Mul(a, b) == IF IsNaN(a) \/ IsNaN(b) THEN NaN ELSE Q(a.n * b.n, a.d * b.d)
\* 0/0 is NaN as in numpy; x/0 with x # 0 (an infinity) is never computed:
\* every division of the program either replaces a zero divisor first or
\* divides by a value the inputs keep non-zero.
Div(a, b) == IF IsNaN(a) \/ IsNaN(b) \/ b.n = 0 THEN NaN ELSE Q(a.n * b.d, a.d * b.n)
QAbs(a)   == IF IsNaN(a) THEN NaN ELSE [n |-> Abs(a.n), d |-> a.d]

\* Python's comparisons: False whenever an operand is NaN
Lt(a, b) == ~IsNaN(a) /\ ~IsNaN(b) /\ a.n * b.d <  b.n * a.d
Le(a, b) == ~IsNaN(a) /\ ~IsNaN(b) /\ a.n * b.d <= b.n * a.d
Gt(a, b) == Lt(b, a)
Ge(a, b) == Le(b, a)
Eq(a, b) == ~IsNaN(a) /\ ~IsNaN(b) /\ a.n * b.d =  b.n * a.d

(***************************************************************************)
(* _classify_wave_stage: the rule cascade                                  *)
(***************************************************************************)
\* the guard in front of the cascade (line 142)
InsufficientRow(r) ==
    IsNaN(r.ma50) \/ IsNaN(r.ma200) \/ Eq(r.ma50, Num(0)) \/ Eq(r.ma200, Num(0))

\* rule 1, 90 points (lines 147-151)
CondStrongUptrend(r) ==
    /\ r.ma_aligned
    /\ Le(Num(60), r.position_52w) /\ Le(r.position_52w, Num(90))
    /\ Ge(r.volume_ratio, Q(13, 10))
    /\ Le(Num(55), r.rsi) /\ Le(r.rsi, Num(75))
    /\ Ge(r.price_change_20d, Q(10, 100))

\* rule 2, 80 points (lines 156-159)
CondEarlyUptrend(r) ==
    /\ Gt(r.ma20, r.ma50)
    /\ Le(Num(40), r.position_52w) /\ Le(r.position_52w, Num(75))
    /\ Ge(r.close, Mul(r.ma20, Q(98, 100)))
    /\ Ge(r.volume_ratio, Q(12, 10))

\* line 164
ma_convergence(r) ==
    IF Gt(r.ma50, Num(0))
    THEN Lt(Div(QAbs(Sub(r.ma20, r.ma50)), r.ma50), Q(3, 100))
    ELSE FALSE

\* rule 3, 70 points (lines 165-167)
CondTransition(r) ==
    /\ ma_convergence(r)
    /\ Le(Num(25), r.position_52w) /\ Le(r.position_52w, Num(60))
    /\ Le(Num(45), r.rsi) /\ Le(r.rsi, Num(65))

\* rule 4, 60 points (lines 172-174)
CondGeneralUptrend(r) ==
    /\ Gt(r.ma20, r.ma50)
    /\ Le(Num(30), r.position_52w) /\ Le(r.position_52w, Num(70))
    /\ Ge(r.volume_ratio, Q(8, 10))

\* rule 5, 30 points (lines 179-181)
CondDecline(r) ==
    /\ Lt(r.ma20, r.ma50)
    /\ Lt(r.ma50, r.ma200)
    /\ Lt(r.rsi, Num(40))

\* rule 6, 40 points (lines 186-187)
CondDistribution(r) ==
    /\ Ge(r.position_52w, Num(75))
    /\ Lt(r.volume_ratio, Q(8, 10))

\* rule 7, 50 points (lines 192-193)
CondBase(r) ==
    /\ Lt(r.position_52w, Num(40))
    /\ Lt(QAbs(r.price_change_20d), Q(5, 100))

StageOf(s, l) == [score |-> s, label |-> l]

\* a plausible slip: the general-uptrend test placed in front of the cascade
classify_general_first(r) ==
    IF InsufficientRow(r) THEN StageOf(50, "Insufficient Data")
    ELSE IF CondGeneralUptrend(r) THEN StageOf(60, "General Uptrend")
    ELSE IF CondStrongUptrend(r) THEN StageOf(90, "Stage 2 Mid (Strong Uptrend)")
    ELSE IF CondEarlyUptrend(r) THEN StageOf(80, "Stage 2 Early (Early Uptrend)")
    ELSE IF CondTransition(r) THEN StageOf(70, "Stage 1-2 Transition")
    ELSE IF CondDecline(r) THEN StageOf(30, "Stage 4 (Decline)")
    ELSE IF CondDistribution(r) THEN StageOf(40, "Stage 3 (Distribution)")
    ELSE IF CondBase(r) THEN StageOf(50, "Stage 1 (Base)")
    ELSE StageOf(50, "Neutral")

\* a plausible slip: the guard tests only MA50
classify_guard_ma50_only(r) ==
    IF IsNaN(r.ma50) \/ Eq(r.ma50, Num(0)) THEN StageOf(50, "Insufficient Data")
    ELSE IF CondStrongUptrend(r) THEN StageOf(90, "Stage 2 Mid (Strong Uptrend)")
    ELSE IF CondEarlyUptrend(r) THEN StageOf(80, "Stage 2 Early (Early Uptrend)")
    ELSE IF CondTransition(r) THEN StageOf(70, "Stage 1-2 Transition")
    ELSE IF CondGeneralUptrend(r) THEN StageOf(60, "General Uptrend")
    ELSE IF CondDecline(r) THEN StageOf(30, "Stage 4 (Decline)")
    ELSE IF CondDistribution(r) THEN StageOf(40, "Stage 3 (Distribution)")
    ELSE IF CondBase(r) THEN StageOf(50, "Stage 1 (Base)")
    ELSE StageOf(50, "Neutral")

\* a plausible slip: the general-uptrend test (rule 4) loses its volume condition
classify_general_any_volume(r) ==
    IF InsufficientRow(r) THEN StageOf(50, "Insufficient Data")
    ELSE IF CondStrongUptrend(r) THEN StageOf(90, "Stage 2 Mid (Strong Uptrend)")
    ELSE IF CondEarlyUptrend(r) THEN StageOf(80, "Stage 2 Early (Early Uptrend)")
    ELSE IF CondTransition(r) THEN StageOf(70, "Stage 1-2 Transition")
    ELSE IF Gt(r.ma20, r.ma50) /\ Le(Num(30), r.position_52w) /\ Le(r.position_52w, Num(70))
         THEN StageOf(60, "General Uptrend")
    ELSE IF CondDecline(r) THEN StageOf(30, "Stage 4 (Decline)")
    ELSE IF CondDistribution(r) THEN StageOf(40, "Stage 3 (Distribution)")
    ELSE IF CondBase(r) THEN StageOf(50, "Stage 1 (Base)")
    ELSE StageOf(50, "Neutral")

\* a plausible addition: a golden cross counted as an early uptrend
classify_golden_cross_early(r) ==
    IF InsufficientRow(r) THEN StageOf(50, "Insufficient Data")
    ELSE IF CondStrongUptrend(r) THEN StageOf(90, "Stage 2 Mid (Strong Uptrend)")
    ELSE IF CondEarlyUptrend(r) \/ r.golden_cross
        THEN StageOf(80, "Stage 2 Early (Early Uptrend)")
    ELSE IF CondTransition(r) THEN StageOf(70, "Stage 1-2 Transition")
    ELSE IF CondGeneralUptrend(r) THEN StageOf(60, "General Uptrend")
    ELSE IF CondDecline(r) THEN StageOf(30, "Stage 4 (Decline)")
    ELSE IF CondDistribution(r) THEN StageOf(40, "Stage 3 (Distribution)")
    ELSE IF CondBase(r) THEN StageOf(50, "Stage 1 (Base)")
    ELSE StageOf(50, "Neutral")

\* lines 123-197: each `if ...: return` in source order
classify_wave_stage(r) ==
    IF InsufficientRow(r) THEN StageOf(50, "Insufficient Data")
    ELSE IF CondStrongUptrend(r) THEN StageOf(90, "Stage 2 Mid (Strong Uptrend)")
    ELSE IF CondEarlyUptrend(r) THEN StageOf(80, "Stage 2 Early (Early Uptrend)")
    ELSE IF CondTransition(r) THEN StageOf(70, "Stage 1-2 Transition")
    ELSE IF CondGeneralUptrend(r) THEN StageOf(60, "General Uptrend")
    ELSE IF CondDecline(r) THEN StageOf(30, "Stage 4 (Decline)")
    ELSE IF CondDistribution(r) THEN StageOf(40, "Stage 3 (Distribution)")
    ELSE IF CondBase(r) THEN StageOf(50, "Stage 1 (Base)")
    ELSE StageOf(50, "Neutral")

(***************************************************************************)
(* _calculate_fundamental_score                                            *)
(***************************************************************************)
\* line 209 / 216: row.get(key, default)
row_get(r, key, default) == IF key \in DOMAIN r THEN r[key] ELSE default

\* a plausible slip: the second volume test as an `if` of its own
calculate_fundamental_score_both_bonuses(r) ==
    LET base == 10
        volume_ratio == row_get(r, "volume_ratio", Num(1))
        rsi_ == row_get(r, "rsi", Num(50))
        vol  == (IF Ge(volume_ratio, Q(15, 10)) THEN 5 ELSE 0)
                    + (IF Ge(volume_ratio, Q(12, 10)) THEN 3 ELSE 0)
        rsi  == IF Le(Num(50), rsi_) /\ Le(rsi_, Num(70)) THEN 5
                ELSE IF Le(Num(40), rsi_) /\ Lt(rsi_, Num(50)) THEN 2
                ELSE 0
        score == base + vol + rsi
    IN  IF score < 20 THEN score ELSE 20

\* lines 199-222
calculate_fundamental_score(r) ==
    LET base == 10
        volume_ratio == row_get(r, "volume_ratio", Num(1))
        rsi_ == row_get(r, "rsi", Num(50))
        vol  == IF Ge(volume_ratio, Q(15, 10)) THEN 5
                ELSE IF Ge(volume_ratio, Q(12, 10)) THEN 3
                ELSE 0
        rsi  == IF Le(Num(50), rsi_) /\ Le(rsi_, Num(70)) THEN 5
                ELSE IF Le(Num(40), rsi_) /\ Lt(rsi_, Num(50)) THEN 2
                ELSE 0
        score == base + vol + rsi
    IN  IF score < 20 THEN score ELSE 20

(***************************************************************************)
(* _calculate_technical_indicators                                         *)
(*                                                                         *)
(* A price row is [ticker, date, close, high, low, volume]; `open` is in   *)
(* the input but no line of the analyzer reads it.  The close column holds *)
(* cells: a number, or a text the numeric operations cannot handle (the    *)
(* malformed record).                                                      *)
(***************************************************************************)
NumCell(v) == [text |-> FALSE, v |-> v]
TextCell   == [text |-> TRUE, v |-> 0]

Closes(s)  == [k \in 1..Len(s) |-> s[k].close.v]
Highs(s)   == [k \in 1..Len(s) |-> s[k].high]
Lows(s)    == [k \in 1..Len(s) |-> s[k].low]
Volumes(s) == [k \in 1..Len(s) |-> s[k].volume]

\* sum, largest and smallest of f[lo..hi], by halving the range
RECURSIVE SumRange(_, _, _)
SumRange(f, lo, hi) ==
    IF lo > hi THEN 0
    ELSE IF lo = hi THEN f[lo]
    ELSE LET mid == (lo + hi) \div 2
         IN  SumRange(f, lo, mid) + SumRange(f, mid + 1, hi)

RECURSIVE MaxRange(_, _, _)
MaxRange(f, lo, hi) ==
    IF lo = hi THEN f[lo]
    ELSE LET mid == (lo + hi) \div 2
             a   == MaxRange(f, lo, mid)
             b   == MaxRange(f, mid + 1, hi)
         IN  IF a > b THEN a ELSE b

RECURSIVE MinRange(_, _, _)
MinRange(f, lo, hi) ==
    IF lo = hi THEN f[lo]
    ELSE LET mid == (lo + hi) \div 2
             a   == MinRange(f, lo, mid)
             b   == MinRange(f, mid + 1, hi)
         IN  IF a < b THEN a ELSE b

\* a window one row short
WindowLo_short(i, w) == IF i - w + 2 < 1 THEN 1 ELSE i - w + 2

\* first row of the window of w rows that ends at row i
WindowLo(i, w) == IF i - w + 1 < 1 THEN 1 ELSE i - w + 1

\* the mean of full windows only
rolling_mean_full_window(f, i, w, minp) ==
    IF i < w THEN NaN ELSE Q(SumRange(f, i - w + 1, i), w)

\* Series.rolling(window=w, min_periods=minp).mean() at row i
rolling_mean(f, i, w, minp) ==
    LET lo == WindowLo(i, w)
    IN  IF i < 1 \/ i - lo + 1 < minp THEN NaN ELSE Q(SumRange(f, lo, i), i - lo + 1)

\* the maximum of the rows before row i
rolling_max_lagged(f, i, w, minp) ==
    LET lo == WindowLo(i, w)
    IN  IF i < 1 \/ i - lo + 1 < minp THEN NaN ELSE Num(MaxRange(f, lo, i - 1))

\* Series.rolling(window=w, min_periods=minp).max() / .min() at row i
rolling_max(f, i, w, minp) ==
    LET lo == WindowLo(i, w)
    IN  IF i < 1 \/ i - lo + 1 < minp THEN NaN ELSE Num(MaxRange(f, lo, i))

rolling_min(f, i, w, minp) ==
    LET lo == WindowLo(i, w)
    IN  IF i < 1 \/ i - lo + 1 < minp THEN NaN ELSE Num(MinRange(f, lo, i))

\* line 92: close.diff(); NaN on the first row
Delta(c, k) == IF k = 1 THEN NaN ELSE Num(c[k] - c[k - 1])

\* lines 93-94: delta.where(delta > 0, 0) and -delta.where(delta < 0, 0)
GainSeries(c) == [k \in 1..Len(c) |-> IF Gt(Delta(c, k), Num(0)) THEN c[k] - c[k - 1] ELSE 0]
LossSeries(c) == [k \in 1..Len(c) |-> IF Lt(Delta(c, k), Num(0)) THEN c[k - 1] - c[k] ELSE 0]

\* the zero stays
ReplaceZero_keep(x, v) == x

\* Series.replace(0, v)
ReplaceZero(x, v) == IF Eq(x, Num(0)) THEN v ELSE x

\* the undefined value stays
FillNa_keep(x, v) == x

\* Series.fillna(v)
FillNa(x, v) == IF IsNaN(x) THEN v ELSE x

RsiWindow == 14
Week52Window == 252
Week52MinPeriods == 20

\* the textbook index: 100 where the window holds gains and no loss
RsiAt_textbook(c, i) ==
    LET gain == rolling_mean(GainSeries(c), i, RsiWindow, 1)
        loss == rolling_mean(LossSeries(c), i, RsiWindow, 1)
        rs   == Div(gain, ReplaceZero(loss, NaN))
    IN  IF Eq(loss, Num(0)) /\ Gt(gain, Num(0)) THEN Num(100)
        ELSE FillNa(Sub(Num(100), Div(Num(100), Add(Num(1), rs))), Num(50))

\* lines 92-97
RsiAt(c, i) ==
    LET gain == rolling_mean(GainSeries(c), i, RsiWindow, 1)
        loss == rolling_mean(LossSeries(c), i, RsiWindow, 1)
        rs   == Div(gain, ReplaceZero(loss, NaN))
    IN  FillNa(Sub(Num(100), Div(Num(100), Add(Num(1), rs))), Num(50))

\* lines 110-112: close.pct_change(n) at row i
pct_change(c, i, n) ==
    IF i <= n THEN NaN ELSE Sub(Div(Num(c[i]), Num(c[i - n])), Num(1))

\* the flag of a strict flip only
golden_cross_strict(ma20, ma50, p20, p50) == Gt(ma20, ma50) /\ Lt(p20, p50)

\* line 115; p20 and p50 are the shifted averages, NaN on the first row
golden_cross(ma20, ma50, p20, p50) == Gt(ma20, ma50) /\ Le(p20, p50)

\* line 116
death_cross(ma20, ma50, p20, p50) == Lt(ma20, ma50) /\ Ge(p20, p50)

\* lines 83-121: the derived row of bar i of the date-ordered rows s
TechnicalRow(s, i) ==
    LET c     == Closes(s)
        ma20  == rolling_mean(c, i, 20, 1)
        ma50  == rolling_mean(c, i, 50, 1)
        ma200 == rolling_mean(c, i, 200, 1)
        p20   == rolling_mean(c, i - 1, 20, 1)
        p50   == rolling_mean(c, i - 1, 50, 1)
        vma   == rolling_mean(Volumes(s), i, 20, 1)
        hi52  == rolling_max(Highs(s), i, Week52Window, Week52MinPeriods)
        lo52  == rolling_min(Lows(s), i, Week52Window, Week52MinPeriods)
        range == Sub(hi52, lo52)
    IN  [ date             |-> s[i].date,
          close            |-> Num(c[i]),
          ma5              |-> rolling_mean(c, i, 5, 1),
          ma20             |-> ma20,
          ma50             |-> ma50,
          ma200            |-> ma200,
          rsi              |-> RsiAt(c, i),
          volume_ma20      |-> vma,
          volume_ratio     |-> Div(Num(s[i].volume), ReplaceZero(vma, Num(1))),
          high_52w         |-> hi52,
          low_52w          |-> lo52,
          position_52w     |-> Mul(Div(Sub(Num(c[i]), lo52), ReplaceZero(range, Num(1))), Num(100)),
          price_change_5d  |-> pct_change(c, i, 5),
          price_change_20d |-> pct_change(c, i, 20),
          price_change_60d |-> pct_change(c, i, 60),
          golden_cross     |-> golden_cross(ma20, ma50, p20, p50),
          death_cross      |-> death_cross(ma20, ma50, p20, p50),
          ma_aligned       |-> Gt(ma20, ma50) /\ Gt(ma50, ma200) ]

\* the numeric operations of lines 86-112 raise on a column that holds a text
IndicatorsRaise(s) == \E k \in 1..Len(s) : s[k].close.text

(***************************************************************************)
(* Price histories the universe is drawn from.  A history is a sequence of *)
(* bars in date order; each is built to reach one branch of the analysis.  *)
(***************************************************************************)
\* badDate: the input spells the date of the bar in a way no date parser reads
Bar(c, h, l, v) ==
    [close |-> NumCell(c), high |-> h, low |-> l, volume |-> v, badDate |-> FALSE]

MinBars == 20

\* n bars closing at c, on volume v, the last bar on volume vLast; the bar
\* `at` reaches up to hi and down to lo
Plateau(n, c, v, vLast, at, hi, lo) ==
    [k \in 1..n |-> Bar(c, IF k = at THEN hi ELSE c, IF k = at THEN lo ELSE c,
                        IF k = n THEN vLast ELSE v)]

\* closes start at c0 and move by `odd` into every even bar and by `even`
\* into every odd bar; one bar spikes to the high `hi`
ZigZag(n, c0, odd, even, vLast, at, hi) ==
    [k \in 1..n |->
        LET c == c0 + ((k - 1) \div 2) * (odd + even) + (IF k % 2 = 0 THEN odd ELSE 0)
        IN  Bar(c, IF k = at THEN hi ELSE c + 1, c - 1, IF k = n THEN vLast ELSE 100)]

\* a base at 10, then a step up to 20 held for 20 bars with one close at 25
StepUp(vLast) ==
    [k \in 1..25 |->
        LET c == IF k <= 5 THEN 10 ELSE IF k = 7 THEN 25 ELSE 20
        IN  Bar(c, c, c, IF k = 25 THEN vLast ELSE 100)]

WithTextClose(h, at) == [h EXCEPT ![at].close = TextCell]

WithBadDate(h, at) == [h EXCEPT ![at].badDate = TRUE]

Histories ==
    << Plateau(5, 10, 100, 100, 1, 10, 10),               \* 1: 5 bars
       Plateau(MinBars - 1, 10, 100, 100, 1, 10, 10),     \* 2: one bar short
       Plateau(MinBars, 10, 100, 100, 1, 10, 10),         \* 3: flat, 20 bars: Neutral
       Plateau(MinBars, 0, 0, 0, 1, 0, 0),                \* 4: halted, all zero: MA50 = 0
       Plateau(MinBars, 10, 100, 100, 2, 12, 8),          \* 5: Transition
       Plateau(MinBars, 10, 100, 50, 2, 10, 6),           \* 6: Distribution
       Plateau(MinBars + 1, 10, 100, 100, 2, 20, 10),     \* 7: Base
       StepUp(200),                                       \* 8: Early Uptrend
       StepUp(100),                                       \* 9: General Uptrend
       ZigZag(61, 20, 2, -1, 200, 30, 60),                \* 10: Strong Uptrend
       ZigZag(61, 80, -2, 1, 100, 30, 90),                \* 11: Decline
       WithTextClose(Plateau(MinBars, 10, 100, 100, 1, 10, 10), 3),  \* 12: malformed
       WithTextClose(Plateau(5, 10, 100, 100, 1, 10, 10), 3),        \* 13: malformed, 5 bars
       WithBadDate(Plateau(MinBars, 10, 100, 100, 1, 10, 10), 3),    \* 14: unparsable date
       Plateau(MinBars, 10, 0, 0, 2, 12, 8),              \* 15: priced, never traded
       ZigZag(50, 80, -2, 1, 100, 30, 90),                \* 16: falling, 50 bars
       ZigZag(51, 80, -2, 1, 100, 30, 90),                \* 17: falling, 51 bars: Decline
       ZigZag(50, 20, 2, -1, 200, 30, 60),                \* 18: rising, 50 bars
       ZigZag(61, 21, 1, 1, 200, 30, 100)                 \* 19: rising on every bar
    >>

(***************************************************************************)
(* Tickers and __init__ / _preprocess_data                                 *)
(*                                                                         *)
(* A ticker is a string of digits, here the sequence of its digits.  The   *)
(* input spells a date as text; pd.to_datetime turns it into a timestamp,  *)
(* here a day number, and raises on text it cannot parse.                  *)
(***************************************************************************)
DateText(d) == [parses |-> TRUE, day |-> d]
BadDateText == [parses |-> FALSE, day |-> 0]

\* line 63: pd.to_datetime(column) raises (errors='raise' is the default)
\* when a cell does not parse
to_datetime_raises(raw) == \E k \in 1..Len(raw) : ~raw[k].date.parses

\* line 63: the timestamp of a cell that parses
to_datetime(cell) == cell.day

TickerWidth == 6

RECURSIVE Zeros(_)
Zeros(n) == IF n <= 0 THEN <<>> ELSE <<0>> \o Zeros(n - 1)

\* str.zfill(6): left-pad with zeros to width 6; longer strings are kept
zfill(t) == Zeros(TickerWidth - Len(t)) \o t

\* string order
RECURSIVE StrLess(_, _)
StrLess(a, b) ==
    IF b = <<>> THEN FALSE
    ELSE IF a = <<>> THEN TRUE
    ELSE IF Head(a) # Head(b) THEN Head(a) < Head(b)
    ELSE StrLess(Tail(a), Tail(b))

\* order of sort_values(['ticker', 'date'])
RowLess(x, y) ==
    IF x.ticker = y.ticker THEN x.date < y.date ELSE StrLess(x.ticker, y.ticker)

\* lines 59-70: convert the dates, normalise the tickers, sort by ticker and
\* date
preprocess_data(raw) ==
    SortSeq([k \in 1..Len(raw) |->
                [raw[k] EXCEPT !.date = to_datetime(raw[k].date),
                               !.ticker = zfill(raw[k].ticker)]], RowLess)

\* the tickers as the input spells them, in the order the input lists them
RawTickers == << <<5, 9, 3, 0>>, <<6, 6, 0>>, <<3, 5, 4, 2, 0>>, <<7, 0>>, <<0, 0, 0, 0, 2, 0>> >>

\* the rows of one instrument as the input lists them: newest first
RawBlock(t, h) ==
    [k \in 1..Len(h) |->
        LET d == Len(h) + 1 - k
        IN  [ticker |-> t, date |-> IF h[d].badDate THEN BadDateText ELSE DateText(d),
             close |-> h[d].close, high |-> h[d].high,
             low |-> h[d].low, volume |-> h[d].volume]]

\* the input table of a universe u: u[j] is the history of the j-th ticker
RECURSIVE RawTable(_)
RawTable(u) ==
    IF u = <<>> THEN <<>>
    ELSE RawTable(SubSeq(u, 1, Len(u) - 1)) \o RawBlock(RawTickers[Len(u)], u[Len(u)])

(***************************************************************************)
(* The flow table (institutional_df): None (NoTable), or a table of rows   *)
(* [ticker, supply_demand_score, supply_demand_stage] as                   *)
(* all_institutional_trend_data.py writes them.                            *)
(***************************************************************************)
NoTable == [present |-> FALSE, rows |-> <<>>]
Table(rows) == [present |-> TRUE, rows |-> rows]

\* what the flow scorer can write for one instrument; "absent" is no row
FlowOutcomes ==
    << [absent |-> TRUE,  score |-> 0,   stage |-> "N/A"],
       [absent |-> FALSE, score |-> 0,   stage |-> "Unknown"],
       [absent |-> FALSE, score |-> 35,  stage |-> "Distribution"],
       [absent |-> FALSE, score |-> 50,  stage |-> "Neutral"],
       [absent |-> FALSE, score |-> 85,  stage |-> "Strong Accumulation"],
       [absent |-> FALSE, score |-> 100, stage |-> "Strong Accumulation"] >>

\* the flow table in which the j-th ticker has outcome ((j + p) mod 6) + 1
RECURSIVE FlowTable(_, _)
FlowTable(n, p) ==
    IF n = 0 THEN <<>>
    ELSE LET o == FlowOutcomes[((n + p) % Len(FlowOutcomes)) + 1]
         IN  FlowTable(n - 1, p) \o
             (IF o.absent THEN <<>>
              ELSE << [ticker |-> zfill(RawTickers[n]),
                       supply_demand_score |-> o.score,
                       supply_demand_stage |-> o.stage] >>)

(***************************************************************************)
(* analyze_stock                                                           *)
(***************************************************************************)
\* round(x, 2): to the nearest hundredth, ties to even
Round2(x) ==
    LET scaled == x.n * 100
        fl     == scaled \div x.d
        rem    == scaled % x.d
        up     == \/ 2 * rem > x.d
                  \/ 2 * rem = x.d /\ fl % 2 = 1
    IN  IF IsNaN(x) THEN NaN ELSE Q(IF up THEN fl + 1 ELSE fl, 100)

\* a plausible slip: the weight the comment of line 266 gives (20%)
final_score_fundamental_weighted(wave_score, fundamental_score, supply_demand_score) ==
    Add(Add(Mul(Num(wave_score), Q(6, 10)), Mul(Num(fundamental_score), Q(2, 10))),
        Mul(Num(supply_demand_score), Q(2, 10)))

\* line 267
final_score(wave_score, fundamental_score, supply_demand_score) ==
    Add(Add(Mul(Num(wave_score), Q(6, 10)), Mul(Num(fundamental_score), Num(1))),
        Mul(Num(supply_demand_score), Q(2, 10)))

\* grade A from 70 points on
investment_grade_a_from_70(final) ==
    IF Ge(final, Num(85)) THEN "S"
    ELSE IF Ge(final, Num(70)) THEN "A"
    ELSE IF Ge(final, Num(65)) THEN "B"
    ELSE IF Ge(final, Num(55)) THEN "C"
    ELSE IF Ge(final, Num(45)) THEN "D"
    ELSE "F"

\* a plausible slip: `>` for `>=` at the first threshold
investment_grade_strict(final) ==
    IF Gt(final, Num(85)) THEN "S"
    ELSE IF Ge(final, Num(75)) THEN "A"
    ELSE IF Ge(final, Num(65)) THEN "B"
    ELSE IF Ge(final, Num(55)) THEN "C"
    ELSE IF Ge(final, Num(45)) THEN "D"
    ELSE "F"

\* lines 270-281 (the grade texts of the source are Korean: "S급 (즉시 매수)", ...)
investment_grade(final) ==
    IF Ge(final, Num(85)) THEN "S"
    ELSE IF Ge(final, Num(75)) THEN "A"
    ELSE IF Ge(final, Num(65)) THEN "B"
    ELSE IF Ge(final, Num(55)) THEN "C"
    ELSE IF Ge(final, Num(45)) THEN "D"
    ELSE "F"

\* a sentinel that carries the neutral score
InsufficientResult_neutral(ticker) ==
    [ ticker |-> ticker, wave_score |-> 0, wave_stage |-> "Insufficient Data",
      final_investment_score |-> Num(50), investment_grade |-> "unscorable" ]

\* lines 235-241 (investment_grade '분석 불가')
InsufficientResult(ticker) ==
    [ ticker |-> ticker, wave_score |-> 0, wave_stage |-> "Insufficient Data",
      final_investment_score |-> Num(0), investment_grade |-> "unscorable" ]

\* lines 340-346 (investment_grade '분석 오류')
ErrorResult(ticker) ==
    [ ticker |-> ticker, wave_score |-> 0, wave_stage |-> "Error",
      final_investment_score |-> Num(0), investment_grade |-> "analysis error" ]

\* line 232
StockData(df, ticker) == SelectSeq(df, LAMBDA x : x.ticker = ticker)

\* a plausible slip: the first row of the table, not of the ticker's rows
FlowLookup_unfiltered(inst, ticker) ==
    IF ~inst.present \/ inst.rows = <<>>
    THEN [score |-> 0, stage |-> "N/A"]
    ELSE [score |-> inst.rows[1].supply_demand_score,
          stage |-> inst.rows[1].supply_demand_stage]

\* lines 256-263
FlowLookup(inst, ticker) ==
    IF ~inst.present \/ inst.rows = <<>>
    THEN [score |-> 0, stage |-> "N/A"]
    ELSE LET inst_row == SelectSeq(inst.rows, LAMBDA x : x.ticker = ticker)
         IN  IF inst_row = <<>>
             THEN [score |-> 0, stage |-> "N/A"]
             ELSE [score |-> inst_row[1].supply_demand_score,
                   stage |-> inst_row[1].supply_demand_stage]

\* a plausible slip: `<=` for `<`
TooShort_inclusive(stock_data) == stock_data = <<>> \/ Len(stock_data) <= MinBars

\* line 234
TooShort(stock_data) == stock_data = <<>> \/ Len(stock_data) < MinBars

\* lines 243-318: the record of a scored instrument
ScoredResult(stock_data, inst, ticker) ==
    LET latest == TechnicalRow(stock_data, Len(stock_data))
        wave   == classify_wave_stage(latest)
        fund   == calculate_fundamental_score(latest)
        flow   == FlowLookup(inst, ticker)
        final  == final_score(wave.score, fund, flow.score)
    IN  [ ticker                 |-> ticker,
          current_date           |-> latest.date,
          current_price          |-> latest.close,
          ma20                   |-> Round2(latest.ma20),
          ma50                   |-> Round2(latest.ma50),
          ma200                  |-> Round2(latest.ma200),
          rsi                    |-> Round2(latest.rsi),
          volume_ratio           |-> Round2(latest.volume_ratio),
          position_52w           |-> Round2(latest.position_52w),
          wave_score             |-> wave.score,
          wave_stage             |-> wave.label,
          supply_demand_score    |-> flow.score,
          supply_demand_stage    |-> flow.stage,
          fundamental_score      |-> fund,
          final_investment_score |-> Round2(final),
          investment_grade       |-> investment_grade(final) ]

\* lines 224-318.  The outcome of a call: it raised, or it returned `value`;
\* `calls` lists the steps of the analysis the call went through.
analyze_stock(df, inst, ticker) ==
    LET stock_data == StockData(df, ticker)
    IN  IF TooShort(stock_data)
        THEN [ticker |-> ticker, raised |-> FALSE,
              value |-> InsufficientResult(ticker), calls |-> {}]
        ELSE IF IndicatorsRaise(stock_data)
        THEN [ticker |-> ticker, raised |-> TRUE,
              value |-> NoValue, calls |-> {"indicators"}]
        ELSE [ticker |-> ticker, raised |-> FALSE,
              value  |-> ScoredResult(stock_data, inst, ticker),
              calls  |-> {"indicators", "classify", "fundamental", "flow"}]

(***************************************************************************)
(* SpecClassify: the classifier as a pure function of an arbitrary row     *)
(***************************************************************************)
\* values on both sides of every threshold the cascade tests
RowMA20     == {Num(90), Num(101), Num(110)}
RowMA50     == {NaN, Num(0), Num(100)}
RowMA200    == {NaN, Num(0), Num(90), Num(110)}
RowClose    == {Num(97), Num(110)}
RowRSI      == {Num(39), Num(45), Num(60), Num(76)}
RowPosition == {Num(20), Num(35), Num(50), Num(70), Num(80), Num(95)}
RowVolume   == {Q(5, 10), Q(8, 10), Q(12, 10), Q(14, 10)}
RowChange   == {NaN, Num(0), Q(12, 100), Q(-10, 100)}

Rows ==
    [close : RowClose, ma20 : RowMA20, ma50 : RowMA50, ma200 : RowMA200,
     rsi : RowRSI, position_52w : RowPosition, volume_ratio : RowVolume,
     price_change_20d : RowChange, ma_aligned : BOOLEAN,
     golden_cross : BOOLEAN, death_cross : BOOLEAN]

ClassifyInit ==
    /\ row \in Rows
    /\ stage = NoValue
    /\ cpc = "input"
    /\ prices_df = <<>>
    /\ institutional_df = NoTable
    /\ last = NoValue
    /\ pc = "idle"
    /\ tickers = <<>>
    /\ idx = 0
    /\ results = <<>>
    /\ result_df = <<>>
    /\ summary = NoValue
    /\ stats = NoValue
    /\ earlier = <<>>
    /\ sort_memo = {}
    /\ FlowUnused
    /\ DerivedUnused
    /\ PipelineUnused

Classify ==
    /\ cpc = "input"
    /\ stage' = classify_wave_stage(row)
    /\ cpc' = "classified"
    /\ UNCHANGED row
    /\ UNCHANGED avars
    /\ UNCHANGED mvars
    /\ UNCHANGED rvars
    /\ UNCHANGED fvars
    /\ UNCHANGED dvars
    /\ UNCHANGED pvars

ClassifyNext == Classify

SpecClassify == ClassifyInit /\ [][ClassifyNext]_vars

(***************************************************************************)
(* The analyzer: __init__, analyze_stock, analyze_all_stocks               *)
(***************************************************************************)
\* line 329: Series.unique(), the values in order of first appearance
RECURSIVE Unique(_)
Unique(col) ==
    IF col = <<>> THEN <<>>
    ELSE LET u == Unique(SubSeq(col, 1, Len(col) - 1))
         IN  IF \E k \in 1..Len(u) : u[k] = col[Len(col)] THEN u ELSE u \o <<col[Len(col)]>>

\* the distinct tickers of a table, in table order
TickersOf(df) ==
    LET firsts == SelectSeq([k \in 1..Len(df) |-> [k |-> k, ticker |-> df[k].ticker]],
                            LAMBDA x : x.k = 1 \/ df[x.k - 1].ticker # x.ticker)
    IN  Unique([k \in 1..Len(firsts) |-> firsts[k].ticker])

\* the flow tables an analyzer over n instruments is built with: none, an
\* empty one, and one for each of the patterns ps
FlowTables(n, ps) == {NoTable, Table(<<>>)} \cup {Table(FlowTable(n, p)) : p \in ps}

\* lines 47-57: the state after __init__(prices_df, institutional_df).  The
\* constructor runs _preprocess_data outside any try: when line 63 raises,
\* the exception leaves __init__ with prices_df the copy of line 53, no
\* analyzer exists and nothing can be called on it (pc = "raised").
Constructed(raw, inst) ==
    /\ prices_df = IF to_datetime_raises(raw) THEN raw ELSE preprocess_data(raw)
    /\ institutional_df = inst
    /\ last = NoValue
    /\ pc = IF to_datetime_raises(raw) THEN "raised" ELSE "idle"
    /\ tickers = <<>>
    /\ idx = 0
    /\ results = <<>>
    /\ result_df = <<>>
    /\ summary = NoValue
    /\ stats = NoValue
    /\ earlier = <<>>
    /\ sort_memo = {}
    /\ FlowUnused
    /\ DerivedUnused
    /\ PipelineUnused
    /\ row = NoValue
    /\ stage = NoValue
    /\ cpc = "unused"

\* the tickers a caller may ask analyze_stock about: those of a universe of
\* n instruments and one the price table does not hold
CallableTickers(n) == {zfill(RawTickers[j]) : j \in 1..(n + 1)}

\* a direct call analyze_stock(ticker), lines 224-318
AnalyzeStock ==
    /\ pc = "idle"
    /\ \E t \in CallableTickers(Len(TickersOf(prices_df))) :
          last' = analyze_stock(prices_df, institutional_df, t)
    /\ UNCHANGED <<prices_df, institutional_df, pc, tickers, idx, results, result_df>>
    /\ UNCHANGED rvars
    /\ UNCHANGED cvars
    /\ UNCHANGED fvars
    /\ UNCHANGED dvars
    /\ UNCHANGED pvars
    /\ UNCHANGED mvars

\* lines 329-332: a call of analyze_all_stocks, the first one or, once a run
\* has returned, one more on the same tables
BeginBatch ==
    /\ \/ pc = "idle" /\ earlier' = earlier
       \/ pc = "done" /\ earlier = <<>> /\ earlier' = <<result_df>>
    /\ tickers' = TickersOf(prices_df)
    /\ results' = <<>>
    /\ idx' = 1
    /\ pc' = "loop"
    /\ UNCHANGED <<prices_df, institutional_df, last, result_df, sort_memo>>
    /\ UNCHANGED cvars
    /\ UNCHANGED fvars
    /\ UNCHANGED dvars
    /\ UNCHANGED pvars
    /\ UNCHANGED mvars

\* lines 334-337: one pass of the loop body in which analyze_stock returns
IterateReturn ==
    /\ pc = "loop" /\ idx <= Len(tickers)
    /\ LET out == analyze_stock(prices_df, institutional_df, tickers[idx])
       IN  /\ ~out.raised
           /\ last' = out
           /\ results' = Append(results, out.value)
    /\ idx' = idx + 1
    /\ UNCHANGED <<prices_df, institutional_df, pc, tickers, result_df>>
    /\ UNCHANGED rvars
    /\ UNCHANGED cvars
    /\ UNCHANGED fvars
    /\ UNCHANGED dvars
    /\ UNCHANGED pvars
    /\ UNCHANGED mvars

\* lines 334-346: one pass of the loop body in which analyze_stock raises
IterateExcept ==
    /\ pc = "loop" /\ idx <= Len(tickers)
    /\ LET out == analyze_stock(prices_df, institutional_df, tickers[idx])
       IN  /\ out.raised
           /\ last' = out
           /\ results' = Append(results, ErrorResult(tickers[idx]))
    /\ idx' = idx + 1
    /\ UNCHANGED <<prices_df, institutional_df, pc, tickers, result_df>>
    /\ UNCHANGED rvars
    /\ UNCHANGED cvars
    /\ UNCHANGED fvars
    /\ UNCHANGED dvars
    /\ UNCHANGED pvars
    /\ UNCHANGED mvars

\* the permutations of 1..n
Perms(n) == {f \in [1..n -> 1..n] : \A i, j \in 1..n : f[i] = f[j] => i = j}

\* a plausible slip: ascending=False left out
sort_values_ascending(rs) ==
    { [k \in 1..Len(rs) |-> rs[f[k]]] : f \in
        { g \in Perms(Len(rs)) :
            \A k \in 1..(Len(rs) - 1) :
                Le(rs[g[k]].final_investment_score, rs[g[k + 1]].final_investment_score) } }

\* line 351: DataFrame.sort_values('final_investment_score', ascending=False).
\* The call leaves `kind` at its default, 'quicksort', which pandas documents
\* as not stable: rows with equal scores come out in an order the library
\* does not fix, so every descending arrangement is a possible outcome.
sort_values(rs) ==
    { [k \in 1..Len(rs) |-> rs[f[k]]] : f \in
        { g \in Perms(Len(rs)) :
            \A k \in 1..(Len(rs) - 1) :
                Ge(rs[g[k]].final_investment_score, rs[g[k + 1]].final_investment_score) } }

\* a sort that draws its arrangement of equal scores anew on every call
sort_outcomes_fresh(memo, rs) == sort_values(rs)

\* line 351 as a computation: the sort is a fixed function of the rows it is
\* given (numpy's quicksort draws nothing at random), though which of the
\* arrangements of sort_values it computes is not specified: the first call
\* on some rows may give any of them, a later call on the same rows gives
\* the same again.
sort_outcomes(memo, rs) ==
    IF \E m \in memo : m.in = rs
    THEN {m.out : m \in {x \in memo : x.in = rs}}
    ELSE sort_values(rs)

\* lines 348-353: after the loop, build the table, sort it, return it
SortAndReturn ==
    /\ pc = "loop" /\ idx > Len(tickers)
    /\ result_df' \in sort_outcomes(sort_memo, results)
    /\ sort_memo' = sort_memo \cup {[in |-> results, out |-> result_df']}
    /\ pc' = "done"
    /\ UNCHANGED <<prices_df, institutional_df, last, tickers, idx, results, earlier>>
    /\ UNCHANGED cvars
    /\ UNCHANGED fvars
    /\ UNCHANGED dvars
    /\ UNCHANGED pvars
    /\ UNCHANGED mvars

(***************************************************************************)
(* The statistics over a run: the summary main() logs, and the dashboard's *)
(* get_summary_stats over the saved table                                  *)
(***************************************************************************)
\* line 419: results.head(10)
TopN == 10

Column(df, f) == [k \in 1..Len(df) |-> df[k][f]]

RECURSIVE SumOf(_)
SumOf(col) == IF col = <<>> THEN Num(0) ELSE Add(Head(col), SumOf(Tail(col)))

\* Series.mean()
mean(col) == Div(SumOf(col), Num(Len(col)))

\* Series.max(), Series.min()
max(col) == CHOOSE x \in {col[k] : k \in 1..Len(col)} : \A k \in 1..Len(col) : Ge(x, col[k])
min(col) == CHOOSE x \in {col[k] : k \in 1..Len(col)} : \A k \in 1..Len(col) : Le(x, col[k])

\* Series.value_counts(): each value that occurs, with the number of rows
value_counts(col) ==
    [v \in {col[k] : k \in 1..Len(col)} |-> Cardinality({k \in 1..Len(col) : col[k] = v})]

\* DataFrame.head(n)
head(df, n) == SubSeq(df, 1, IF Len(df) < n THEN Len(df) ELSE n)

\* the table has the columns only a scored record carries (name, current_date)
HasScoredColumns(df) == \E k \in 1..Len(df) : "current_date" \in DOMAIN df[k]

\* lines 406-422: what main() logs.  Selecting the column 'name' at line 419
\* raises KeyError when no record of the table carries it.
main_summary(df) ==
    [ total      |-> Len(df),
      average    |-> mean(Column(df, "final_investment_score")),
      grade_dist |-> value_counts(Column(df, "investment_grade")),
      raised     |-> ~HasScoredColumns(df),
      top        |-> IF ~HasScoredColumns(df) THEN <<>>
                     ELSE [k \in 1..Len(head(df, TopN)) |->
                              [ ticker |-> df[k].ticker,
                                final_investment_score |-> df[k].final_investment_score,
                                investment_grade |-> df[k].investment_grade,
                                wave_stage |-> df[k].wave_stage ]] ]

\* dashboard/utils.py lines 342-355 (the table is never empty here)
get_summary_stats(df) ==
    [ total_stocks  |-> Len(df),
      avg_score     |-> mean(Column(df, "final_investment_score")),
      max_score     |-> max(Column(df, "final_investment_score")),
      min_score     |-> min(Column(df, "final_investment_score")),
      s_grade_count |-> Cardinality({k \in 1..Len(df) : df[k].investment_grade = "S"}),
      a_grade_count |-> Cardinality({k \in 1..Len(df) : df[k].investment_grade = "A"}),
      analysis_date |-> IF ~HasScoredColumns(df) THEN "N/A"
                        ELSE IF "current_date" \in DOMAIN df[1] THEN df[1].current_date
                        ELSE "nan" ]

\* main(), lines 401-425: save the table and log the summary
LogSummary ==
    /\ pc = "done"
    /\ result_df # <<>>
    /\ summary' = main_summary(result_df)
    /\ pc' = "saved"
    /\ UNCHANGED <<prices_df, institutional_df, last, tickers, idx, results, result_df, stats>>
    /\ UNCHANGED rvars
    /\ UNCHANGED cvars
    /\ UNCHANGED fvars
    /\ UNCHANGED dvars
    /\ UNCHANGED pvars

\* dashboard/app.py line 76-83: load the saved table, get_summary_stats
GetSummaryStats ==
    /\ pc = "saved"
    /\ stats' = get_summary_stats(result_df)
    /\ pc' = "shown"
    /\ UNCHANGED <<prices_df, institutional_df, last, tickers, idx, results, result_df, summary>>
    /\ UNCHANGED rvars
    /\ UNCHANGED cvars
    /\ UNCHANGED fvars
    /\ UNCHANGED dvars
    /\ UNCHANGED pvars

(***************************************************************************)
(* SpecAnalyze: direct calls of analyze_stock on an analyzer over two      *)
(* instruments, the first with any history of the catalogue                *)
(***************************************************************************)
\* the histories the second instrument is drawn from
Neighbours == <<1, 3, 8, 12>>

AnalyzeInit ==
    \E h \in 1..Len(Histories), g \in 1..Len(Neighbours) :
        \E inst \in FlowTables(2, 0..(Len(FlowOutcomes) - 1)) :
            Constructed(RawTable(<<Histories[h], Histories[Neighbours[g]]>>), inst)

AnalyzeNext == AnalyzeStock

SpecAnalyze == AnalyzeInit /\ [][AnalyzeNext]_vars

(***************************************************************************)
(* Spec: analyze_all_stocks over a universe of up to MaxTickers            *)
(* instruments                                                             *)
(***************************************************************************)
MaxTickers == 3

\* the histories of the universe: 5 bars, flat, early uptrend, malformed
\* close, unparsable date
BatchHistories == <<1, 3, 8, 12, 14>>

\* the flow patterns of the universe
BatchPatterns == {0, 3}

Init ==
    \E n \in 1..MaxTickers :
        \E u \in [1..n -> 1..Len(BatchHistories)] :
            \E inst \in FlowTables(n, BatchPatterns) :
                Constructed(RawTable([j \in 1..n |-> Histories[BatchHistories[u[j]]]]), inst)

Next ==
    \/ BeginBatch \/ IterateReturn \/ IterateExcept \/ SortAndReturn
    \/ LogSummary \/ GetSummaryStats

Spec == Init /\ [][Next]_vars

(***************************************************************************)
(* The flow scorer of all_institutional_trend_data.py:                     *)
(* calculate_trend_metrics and calculate_supply_demand_score.              *)
(*                                                                         *)
(* A parsed investor table is [cols, rows]: the value columns it has and   *)
(* its rows [date, institutional, foreign]; a value is a cell              *)
(* [nan, v] (nan: the source text was not a number).  A metrics dict is a  *)
(* function from the keys it holds to their values: sums and streaks are   *)
(* integers, ratios and slopes are rationals.                              *)
(***************************************************************************)
Cell(v) == [nan |-> FALSE, v |-> v]
NanCell == [nan |-> TRUE, v |-> 0]

EmptyDict == [k \in {} |-> 0]

\* dict.get(key, default)
Get(m, key, default) == IF key \in DOMAIN m THEN m[key] ELSE default

\* Series.fillna(0)
fillna0(col) == [k \in 1..Len(col) |-> IF col[k].nan THEN 0 ELSE col[k].v]

\* Series.tail(n)
tail(col, n) == IF Len(col) <= n THEN col ELSE SubSeq(col, Len(col) - n + 1, Len(col))

RECURSIVE ISum(_)
ISum(col) == IF col = <<>> THEN 0 ELSE Head(col) + ISum(Tail(col))

\* line 150
MinFlowRows == 5
\* lines 167, 197
StreakWindow == 10
\* lines 177, 207
RatioWindow == 20

\* the count of the buy days of the window, whatever lies between them
consecutive_buy_counts_all(recent) ==
    Cardinality({k \in 1..Len(recent) : recent[k] > 0})

\* lines 167-174: the number of positive values at the end of the last 10
RECURSIVE consecutive_buy(_)
consecutive_buy(recent) ==
    IF recent = <<>> \/ recent[Len(recent)] <= 0 THEN 0
    ELSE 1 + consecutive_buy(SubSeq(recent, 1, Len(recent) - 1))

\* a ratio that divides by the length of a full window
buy_ratio_of_full_window(recent_20) ==
    Q(Cardinality({k \in 1..Len(recent_20) : recent_20[k] > 0}), RatioWindow)

\* lines 177-178: (recent_20 > 0).sum() / len(recent_20)
buy_ratio(recent_20) ==
    IF Len(recent_20) > 0
    THEN Q(Cardinality({k \in 1..Len(recent_20) : recent_20[k] > 0}), Len(recent_20))
    ELSE Num(0)

\* the least-squares slope of y over 0..n-1, exactly
exact_slope(y) ==
    LET n   == Len(y)
        x   == [k \in 1..n |-> k - 1]
        sx  == ISum(x)
        sy  == ISum(y)
        sxy == ISum([k \in 1..n |-> x[k] * y[k]])
        sxx == ISum([k \in 1..n |-> x[k] * x[k]])
    IN  Q(n * sxy - sx * sy, n * sxx - sx * sx)

\* the rounding residue a floating-point fit can leave where the exact slope
\* is 0
SlopeResidue == Q(1, 1000000)

\* lines 182-185: np.polyfit(arange(n), y, 1)[0].  The fit is computed in
\* floating point by a least-squares solver: where the exact slope of
\* non-zero values is 0 the result is 0 or a residue of either sign.
polyfit_slopes(y) ==
    IF exact_slope(y) = Num(0) /\ \E k \in 1..Len(y) : y[k] # 0
    THEN {Num(0), SlopeResidue, Sub(Num(0), SlopeResidue)}
    ELSE {exact_slope(y)}

InstKeys ==
    [ sum5 |-> "inst_5d_sum", sum10 |-> "inst_10d_sum", sum20 |-> "inst_20d_sum",
      streak |-> "inst_consecutive_buy", ratio |-> "inst_buy_ratio",
      slope |-> "inst_trend_slope" ]
FrgnKeys ==
    [ sum5 |-> "frgn_5d_sum", sum10 |-> "frgn_10d_sum", sum20 |-> "frgn_20d_sum",
      streak |-> "frgn_consecutive_buy", ratio |-> "frgn_buy_ratio",
      slope |-> "frgn_trend_slope" ]

\* lines 158-186 (keys InstKeys) and 189-216 (keys FrgnKeys): the entries of
\* one investor class, for each slope the fit can give; the table has at
\* least 5 rows here
class_metrics(col, keys) ==
    LET values == fillna0(col)
    IN  { [k \in {keys.sum5, keys.sum10, keys.sum20, keys.streak, keys.ratio} \cup
                  (IF Len(tail(values, RatioWindow)) > 1 THEN {keys.slope} ELSE {}) |->
              IF k = keys.sum5 THEN ISum(tail(values, 5))
              ELSE IF k = keys.sum10 THEN ISum(tail(values, 10))
              ELSE IF k = keys.sum20 THEN ISum(tail(values, 20))
              ELSE IF k = keys.streak THEN consecutive_buy(tail(values, StreakWindow))
              ELSE IF k = keys.ratio THEN buy_ratio(tail(values, RatioWindow))
              ELSE slope]
          : slope \in polyfit_slopes(tail(values, RatioWindow)) }

DateLess(x, y) == x.date < y.date

\* lines 143-218: the dicts the call can return
calculate_trend_metrics(df) ==
    IF df.rows = <<>> \/ Len(df.rows) < MinFlowRows THEN {EmptyDict}
    ELSE LET sorted == SortSeq(df.rows, DateLess)
             inst == IF "institutional" \in df.cols
                     THEN class_metrics([k \in 1..Len(sorted) |-> sorted[k].institutional],
                                        InstKeys)
                     ELSE {EmptyDict}
             frgn == IF "foreign" \in df.cols
                     THEN class_metrics([k \in 1..Len(sorted) |-> sorted[k].foreign],
                                        FrgnKeys)
                     ELSE {EmptyDict}
         IN  {a @@ b : a \in inst, b \in frgn}

\* selling weighed as heavily as all the bonuses of a class
raw_score_selling_cancels_class(m) ==
    50
    + (IF Get(m, "inst_20d_sum", 0) > 0 THEN 10 ELSE 0)
    + (IF Get(m, "inst_consecutive_buy", 0) >= 3 THEN 10 ELSE 0)
    + (IF Ge(Get(m, "inst_buy_ratio", Num(0)), Q(6, 10)) THEN 5 ELSE 0)
    + (IF Gt(Get(m, "inst_trend_slope", Num(0)), Num(0)) THEN 5 ELSE 0)
    + (IF Get(m, "frgn_20d_sum", 0) > 0 THEN 10 ELSE 0)
    + (IF Get(m, "frgn_consecutive_buy", 0) >= 3 THEN 10 ELSE 0)
    + (IF Ge(Get(m, "frgn_buy_ratio", Num(0)), Q(6, 10)) THEN 5 ELSE 0)
    + (IF Gt(Get(m, "frgn_trend_slope", Num(0)), Num(0)) THEN 5 ELSE 0)
    - (IF Get(m, "inst_20d_sum", 0) < 0 THEN 25 ELSE 0)
    - (IF Get(m, "frgn_20d_sum", 0) < 0 THEN 25 ELSE 0)

\* a score that takes the 10 points off unless the 20-day sum is positive
raw_score_penalises_zero(m) ==
    50
    + (IF Get(m, "inst_20d_sum", 0) > 0 THEN 10 ELSE 0)
    + (IF Get(m, "inst_consecutive_buy", 0) >= 3 THEN 10 ELSE 0)
    + (IF Ge(Get(m, "inst_buy_ratio", Num(0)), Q(6, 10)) THEN 5 ELSE 0)
    + (IF Gt(Get(m, "inst_trend_slope", Num(0)), Num(0)) THEN 5 ELSE 0)
    + (IF Get(m, "frgn_20d_sum", 0) > 0 THEN 10 ELSE 0)
    + (IF Get(m, "frgn_consecutive_buy", 0) >= 3 THEN 10 ELSE 0)
    + (IF Ge(Get(m, "frgn_buy_ratio", Num(0)), Q(6, 10)) THEN 5 ELSE 0)
    + (IF Gt(Get(m, "frgn_trend_slope", Num(0)), Num(0)) THEN 5 ELSE 0)
    - (IF Get(m, "inst_20d_sum", 0) <= 0 THEN 10 ELSE 0)
    - (IF Get(m, "frgn_20d_sum", 0) <= 0 THEN 10 ELSE 0)

\* lines 231-257: the score before the clamp
raw_score(m) ==
    50
    + (IF Get(m, "inst_20d_sum", 0) > 0 THEN 10 ELSE 0)
    + (IF Get(m, "inst_consecutive_buy", 0) >= 3 THEN 10 ELSE 0)
    + (IF Ge(Get(m, "inst_buy_ratio", Num(0)), Q(6, 10)) THEN 5 ELSE 0)
    + (IF Gt(Get(m, "inst_trend_slope", Num(0)), Num(0)) THEN 5 ELSE 0)
    + (IF Get(m, "frgn_20d_sum", 0) > 0 THEN 10 ELSE 0)
    + (IF Get(m, "frgn_consecutive_buy", 0) >= 3 THEN 10 ELSE 0)
    + (IF Ge(Get(m, "frgn_buy_ratio", Num(0)), Q(6, 10)) THEN 5 ELSE 0)
    + (IF Gt(Get(m, "frgn_trend_slope", Num(0)), Num(0)) THEN 5 ELSE 0)
    - (IF Get(m, "inst_20d_sum", 0) < 0 THEN 10 ELSE 0)
    - (IF Get(m, "frgn_20d_sum", 0) < 0 THEN 10 ELSE 0)

\* a clamp that forgets the upper end
clamp_from_below(x) == IF x < 0 THEN 0 ELSE x

\* line 260: max(0, min(100, score))
clamp(x) == IF x > 100 THEN 100 ELSE IF x < 0 THEN 0 ELSE x

\* thresholds taken strictly
flow_stage_strict(score) ==
    IF score > 80 THEN "Strong Accumulation"
    ELSE IF score > 65 THEN "Accumulation"
    ELSE IF score > 50 THEN "Neutral"
    ELSE IF score > 35 THEN "Distribution"
    ELSE "Strong Distribution"

\* lines 263-272
flow_stage(score) ==
    IF score >= 80 THEN "Strong Accumulation"
    ELSE IF score >= 65 THEN "Accumulation"
    ELSE IF score >= 50 THEN "Neutral"
    ELSE IF score >= 35 THEN "Distribution"
    ELSE "Strong Distribution"

\* lines 221-274
calculate_supply_demand_score(m) ==
    IF DOMAIN m = {} THEN [score |-> 0, stage |-> "Unknown"]
    ELSE LET score == clamp(raw_score(m))
         IN  [score |-> score, stage |-> flow_stage(score)]

(***************************************************************************)
(* SpecFlow: the flow scorer on the investor rows of one instrument, or on *)
(* a metrics dict handed to calculate_supply_demand_score directly         *)
(***************************************************************************)
\* the numbers of investor rows
FlowLengths == {0, 4, 5, 6, 10, 19, 20, 21}

\* the net purchases of one investor class on day d of n
FlowPatterns ==
    << [n \in 0..21 |-> [d \in 1..n |-> Cell(100)]],                       \* buying
       [n \in 0..21 |-> [d \in 1..n |-> Cell(-100)]],                      \* selling
       [n \in 0..21 |-> [d \in 1..n |-> Cell(0)]],                         \* idle
       [n \in 0..21 |-> [d \in 1..n |-> Cell(IF d % 2 = 0 THEN 50 ELSE -50)]],
       [n \in 0..21 |-> [d \in 1..n |-> Cell(IF d > n - 3 THEN 400 ELSE -100)]],
       [n \in 0..21 |-> [d \in 1..n |-> IF d % 2 = 1 THEN NanCell ELSE Cell(100)]],
       [n \in 0..21 |-> [d \in 1..n |-> Cell(IF d > n - 3 THEN -400 ELSE 100)]] >>

\* the parsed table, newest row first as the source lists them
FlowFrame(n, i, f, cols) ==
    [ cols |-> cols,
      rows |-> [k \in 1..n |->
                   LET d == n + 1 - k
                   IN  [date |-> d, institutional |-> FlowPatterns[i][n][d],
                        foreign |-> FlowPatterns[f][n][d]]] ]

FlowColumns == {{"institutional", "foreign"}, {"institutional"}, {"foreign"}, {}}

\* the entries a caller may hand over for one investor class: none, or a
\* 20-day sum, a streak, a buy ratio and a slope
ClassEntries(keys) ==
    {EmptyDict} \cup
    { [k \in {keys.sum20, keys.streak, keys.ratio, keys.slope} |->
          IF k = keys.sum20 THEN sum
          ELSE IF k = keys.streak THEN streak
          ELSE IF k = keys.ratio THEN ratio
          ELSE slope]
      : sum \in {-300, 0, 500}, streak \in {0, 2, 3, 4},
        ratio \in {Q(1, 2), Q(6, 10), Q(7, 10)}, slope \in {Num(-1), Num(0), Q(1, 2)} }

FlowInit ==
    /\ \/ /\ fpc = "rows"
          /\ \E n \in FlowLengths, i, f \in 1..Len(FlowPatterns), cols \in FlowColumns :
                flow_df = FlowFrame(n, i, f, cols)
          /\ metrics = NoValue
       \/ /\ fpc = "metrics"
          /\ flow_df = NoValue
          /\ \E a \in ClassEntries(InstKeys), b \in ClassEntries(FrgnKeys) : metrics = a @@ b
    /\ sd_result = NoValue
    /\ row = NoValue /\ stage = NoValue /\ cpc = "unused"
    /\ prices_df = <<>> /\ institutional_df = NoTable /\ last = NoValue /\ pc = "unused"
    /\ tickers = <<>> /\ idx = 0 /\ results = <<>> /\ result_df = <<>>
    /\ summary = NoValue /\ stats = NoValue
    /\ earlier = <<>> /\ sort_memo = {}
    /\ DerivedUnused
    /\ PipelineUnused

\* analyze_institutional_trend line 306
TrendMetrics ==
    /\ fpc = "rows"
    /\ metrics' \in calculate_trend_metrics(flow_df)
    /\ fpc' = "metrics"
    /\ UNCHANGED <<flow_df, sd_result>>
    /\ UNCHANGED <<cvars, avars, mvars, rvars, dvars, pvars>>

\* analyze_institutional_trend line 309
SupplyDemandScore ==
    /\ fpc = "metrics"
    /\ sd_result' = calculate_supply_demand_score(metrics)
    /\ fpc' = "scored"
    /\ UNCHANGED <<flow_df, metrics>>
    /\ UNCHANGED <<cvars, avars, mvars, rvars, dvars, pvars>>

FlowNext == TrendMetrics \/ SupplyDemandScore

SpecFlow == FlowInit /\ [][FlowNext]_vars

(***************************************************************************)
(* SpecIndicators: _calculate_technical_indicators on the price rows of    *)
(* one instrument, every bar of the derived table kept                     *)
(***************************************************************************)
\* the numbers of bars
SeriesLengths == {1, 2, 15, 20, 21, 30}

\* the close of bar k of n
CloseShapes ==
    << [n \in 1..30 |-> [k \in 1..n |-> 10]],                                 \* flat
       [n \in 1..30 |-> [k \in 1..n |-> 10 + k]],                             \* rising
       [n \in 1..30 |-> [k \in 1..n |-> 40 - k]],                             \* falling
       [n \in 1..30 |-> [k \in 1..n |-> 10 + 3 * (k % 2)]],                   \* zigzag
       [n \in 1..30 |-> [k \in 1..n |-> IF 2 * k <= n THEN 10 + k ELSE 10 + n - k]],
       [n \in 1..30 |-> [k \in 1..n |-> IF k <= 16 THEN 40 - k ELSE 8 + k]],  \* falls, then rises
       [n \in 1..30 |-> [k \in 1..n |-> 0]],                                 \* halted
       [n \in 1..30 |-> [k \in 1..n |-> IF k <= 21 THEN 40 - k ELSE 48]],    \* falls, then jumps
       [n \in 1..30 |-> [k \in 1..n |-> IF k <= 21 THEN 10 + k ELSE 2]] >>   \* rises, then drops

\* [high, low] of a bar closing at c: on the close, around it, both above it
Spreads == << [c \in 0..50 |-> <<c, c>>], [c \in 0..50 |-> <<c + 2, c - 2>>],
              [c \in 0..50 |-> <<c + 2, c + 1>>] >>

\* the volume of bar k
VolumeShapes ==
    << [k \in 1..30 |-> 100], [k \in 1..30 |-> 0], [k \in 1..30 |-> 200 * (k % 2)] >>

PriceSeries(n, shape, spread, vol) ==
    [k \in 1..n |->
        LET c == CloseShapes[shape][n][k]
        IN  [date |-> k, close |-> NumCell(c), high |-> Spreads[spread][c][1],
             low |-> Spreads[spread][c][2], volume |-> VolumeShapes[vol][k]]]

IndicatorsInit ==
    /\ \E n \in SeriesLengths, shape \in 1..Len(CloseShapes), spread \in 1..Len(Spreads),
          vol \in 1..Len(VolumeShapes) :
            series = PriceSeries(n, shape, spread, vol)
    /\ indicators = NoValue
    /\ ipc = "input"
    /\ fscore = NoValue /\ upc = "unused"
    /\ row = NoValue /\ stage = NoValue /\ cpc = "unused"
    /\ prices_df = <<>> /\ institutional_df = NoTable /\ last = NoValue /\ pc = "unused"
    /\ tickers = <<>> /\ idx = 0 /\ results = <<>> /\ result_df = <<>>
    /\ summary = NoValue /\ stats = NoValue
    /\ earlier = <<>> /\ sort_memo = {}
    /\ FlowUnused
    /\ PipelineUnused

\* lines 72-121
CalculateIndicators ==
    /\ ipc = "input"
    /\ IF IndicatorsRaise(series)
       THEN indicators' = indicators /\ ipc' = "raised"
       ELSE /\ indicators' = [i \in 1..Len(series) |-> TechnicalRow(series, i)]
            /\ ipc' = "derived"
    /\ UNCHANGED <<series, fscore, upc>>
    /\ UNCHANGED <<cvars, avars, mvars, rvars, fvars, pvars>>

IndicatorsNext == CalculateIndicators

SpecIndicators == IndicatorsInit /\ [][IndicatorsNext]_vars

(***************************************************************************)
(* SpecFundamental: _calculate_fundamental_score as a pure function of a   *)
(* derived row                                                             *)
(***************************************************************************)
\* values on both sides of every threshold of lines 210-220
FundVolume == {NaN, Num(0), Num(1), Q(119, 100), Q(12, 10), Q(149, 100), Q(15, 10), Num(3)}
FundRSI    == {NaN, Num(0), Q(3999, 100), Num(40), Q(4999, 100), Num(50), Num(60),
               Num(70), Q(7001, 100), Num(100)}

\* the fields of the row the function does not read
FundOthers ==
    [close : {Num(97)}, ma20 : {Num(101)}, ma50 : {NaN, Num(100)}, ma200 : {Num(90)},
     position_52w : {Num(20), Num(80)}, price_change_20d : {Q(12, 100)},
     ma_aligned : BOOLEAN]

\* rows with both fields, and rows that lack one of them or both
FundRows ==
    {o @@ [volume_ratio |-> v, rsi |-> x] : o \in FundOthers, v \in FundVolume, x \in FundRSI}
        \cup {o @@ [volume_ratio |-> v] : o \in FundOthers, v \in FundVolume}
        \cup {o @@ [rsi |-> x] : o \in FundOthers, x \in FundRSI}
        \cup FundOthers

FundamentalInit ==
    /\ row \in FundRows
    /\ fscore = NoValue
    /\ upc = "input"
    /\ series = <<>> /\ indicators = NoValue /\ ipc = "unused"
    /\ stage = NoValue /\ cpc = "unused"
    /\ prices_df = <<>> /\ institutional_df = NoTable /\ last = NoValue /\ pc = "unused"
    /\ tickers = <<>> /\ idx = 0 /\ results = <<>> /\ result_df = <<>>
    /\ summary = NoValue /\ stats = NoValue
    /\ earlier = <<>> /\ sort_memo = {}
    /\ FlowUnused
    /\ PipelineUnused

\* lines 199-222
FundamentalScore ==
    /\ upc = "input"
    /\ fscore' = calculate_fundamental_score(row)
    /\ upc' = "scored"
    /\ UNCHANGED <<series, indicators, ipc>>
    /\ UNCHANGED <<cvars, avars, mvars, rvars, fvars, pvars>>

FundamentalNext == FundamentalScore

SpecFundamental == FundamentalInit /\ [][FundamentalNext]_vars

(***************************************************************************)
(* SpecPipeline: run_analysis.py.  main parses its arguments and calls     *)
(* run_full_pipeline, which runs up to four scripts through run_script.    *)
(***************************************************************************)
\* how the run of a script ends: exit status 0, no such file (line 52), a
\* non-zero exit status (line 77), a timeout (line 82), another exception
\* (line 85), or a KeyboardInterrupt, which run_script does not catch
ScriptOutcomes == {"ok", "missing", "nonzero", "timeout", "error", "interrupt"}

\* a run_script that takes a timeout for a success
run_script_lenient(outcome) == IF outcome \in {"ok", "timeout"} THEN "True" ELSE "False"

\* lines 38-87: the value run_script returns when it returns
run_script(outcome) == IF outcome = "ok" THEN "True" ELSE "False"

\* one call of run_script
ScriptCall(script_name, args, timeout, outcome) ==
    [script_name |-> script_name, args |-> args, timeout |-> timeout, outcome |-> outcome]

\* results[key] = value
SetItem(dict, key, value) == (key :> value) @@ dict

\* --top: the numbers of stocks handed to the AI step
TopChoices == {5, 10, 20}

\* lines 169-200: what parse_args returns
PipelineInit ==
    /\ argv \in [quick : BOOLEAN, skip_ai : BOOLEAN, top : TopChoices]
    /\ skip_ai = FALSE
    /\ pipeline_results = NoValue
    /\ launched = <<>>
    /\ ppc = "parsed"
    /\ row = NoValue /\ stage = NoValue /\ cpc = "unused"
    /\ prices_df = <<>> /\ institutional_df = NoTable /\ last = NoValue /\ pc = "unused"
    /\ tickers = <<>> /\ idx = 0 /\ results = <<>> /\ result_df = <<>>
    /\ summary = NoValue /\ stats = NoValue
    /\ earlier = <<>> /\ sort_memo = {}
    /\ FlowUnused
    /\ DerivedUnused

\* the variables of the other components
others == <<cvars, avars, mvars, rvars, fvars, dvars>>

\* lines 203-207 and 99-107: the call, up to `results = {}`
CallPipeline ==
    /\ ppc = "parsed"
    /\ skip_ai' = argv.skip_ai
    /\ pipeline_results' = EmptyDict
    /\ ppc' = "prices"
    /\ UNCHANGED <<argv, launched>>
    /\ UNCHANGED others

\* lines 110-116
CollectPrices ==
    /\ ppc = "prices"
    /\ \E o \in ScriptOutcomes :
          LET price_args == IF argv.quick THEN <<"--update">> ELSE <<"--days", "365">>
          IN  /\ launched' = Append(launched,
                    ScriptCall("create_complete_daily_prices.py", price_args, 1200, o))
              /\ IF o = "interrupt"
                 THEN ppc' = "interrupted" /\ pipeline_results' = pipeline_results
                 ELSE /\ pipeline_results' = SetItem(pipeline_results, "prices", run_script(o))
                      /\ ppc' = IF run_script(o) = "True" THEN "institutional" ELSE "returned"
    /\ UNCHANGED <<argv, skip_ai>>
    /\ UNCHANGED others

\* lines 119-120
AnalyzeInstitutional ==
    /\ ppc = "institutional"
    /\ \E o \in ScriptOutcomes :
          /\ launched' = Append(launched,
                ScriptCall("all_institutional_trend_data.py", <<>>, 900, o))
          /\ IF o = "interrupt"
             THEN ppc' = "interrupted" /\ pipeline_results' = pipeline_results
             ELSE /\ pipeline_results' =
                        SetItem(pipeline_results, "institutional", run_script(o))
                  /\ ppc' = "analysis"
    /\ UNCHANGED <<argv, skip_ai>>
    /\ UNCHANGED others

\* lines 123-128
WaveAnalysis ==
    /\ ppc = "analysis"
    /\ \E o \in ScriptOutcomes :
          /\ launched' = Append(launched, ScriptCall("analysis2.py", <<>>, 300, o))
          /\ IF o = "interrupt"
             THEN /\ ppc' = "interrupted"
                  /\ UNCHANGED <<pipeline_results, skip_ai>>
             ELSE /\ pipeline_results' = SetItem(pipeline_results, "analysis", run_script(o))
                  /\ skip_ai' = IF run_script(o) = "True" THEN skip_ai ELSE TRUE
                  /\ ppc' = "ai"
    /\ UNCHANGED argv
    /\ UNCHANGED others

\* lines 131-164: the fourth step, run or skipped, the summary and the return
AIInvestigation ==
    /\ ppc = "ai"
    /\ IF ~skip_ai
       THEN \E o \in ScriptOutcomes :
               LET ai_args == <<"--top", ToString(argv.top)>>
               IN  /\ launched' = Append(launched,
                         ScriptCall("investigate_top_stocks.py", ai_args, 600, o))
                   /\ IF o = "interrupt"
                      THEN ppc' = "interrupted" /\ pipeline_results' = pipeline_results
                      ELSE /\ pipeline_results' =
                                 SetItem(pipeline_results, "ai", run_script(o))
                           /\ ppc' = "returned"
       ELSE /\ pipeline_results' = SetItem(pipeline_results, "ai", "None")
            /\ launched' = launched
            /\ ppc' = "returned"
    /\ UNCHANGED <<argv, skip_ai>>
    /\ UNCHANGED others

\* lines 209-215: the exit status of the process
Exit ==
    /\ \/ /\ ppc = "returned"
          /\ ppc' = IF \A k \in DOMAIN pipeline_results :
                          pipeline_results[k] \in {"None", "True"}
                    THEN "exit 0" ELSE "exit 1"
       \/ /\ ppc = "interrupted"
          /\ ppc' = "exit 130"
    /\ UNCHANGED <<argv, skip_ai, pipeline_results, launched>>
    /\ UNCHANGED others

PipelineNext ==
    \/ CallPipeline
    \/ CollectPrices
    \/ AnalyzeInstitutional
    \/ WaveAnalysis
    \/ AIInvestigation
    \/ Exit

SpecPipeline == PipelineInit /\ [][PipelineNext]_vars

(***************************************************************************)
(* Claims about the classifier (checked under SpecClassify)                *)
(***************************************************************************)
\* the cascade as a table: rule number -> condition and outcome
RuleHolds(k, r) ==
    CASE k = 1 -> CondStrongUptrend(r)
      [] k = 2 -> CondEarlyUptrend(r)
      [] k = 3 -> CondTransition(r)
      [] k = 4 -> CondGeneralUptrend(r)
      [] k = 5 -> CondDecline(r)
      [] k = 6 -> CondDistribution(r)
      [] k = 7 -> CondBase(r)

RuleScore == <<90, 80, 70, 60, 30, 40, 50>>

MatchingRules(r) == {k \in 1..7 : RuleHolds(k, r)}

LowestRule(r) == CHOOSE k \in MatchingRules(r) : \A j \in MatchingRules(r) : k <= j

\* C1: on every row whose MA50 and MA200 are defined and non-zero the
\* classifier returns the score of the lowest-numbered rule of
\* 90, 80, 70, 60, 30, 40, 50 whose condition holds, and (50, "Neutral")
\* when none holds; a row on which rules 1 and 4 both hold gets 90.
C1_FirstMatchWins ==
    (cpc = "classified" /\ ~InsufficientRow(row)) =>
        /\ MatchingRules(row) = {} => stage = StageOf(50, "Neutral")
        /\ MatchingRules(row) # {} =>
              /\ stage.score = RuleScore[LowestRule(row)]
              /\ stage.label # "Neutral"
        /\ (RuleHolds(1, row) /\ RuleHolds(4, row)) => stage.score = 90

C1_Witness ==
    /\ cpc = "classified"
    /\ ~InsufficientRow(row)
    /\ RuleHolds(1, row) /\ RuleHolds(4, row)
    /\ stage.score = 90

\* the row of the scenario: MA20 > MA50 > MA200 (of positive prices, so
\* MA200 > 0), position 70, RSI 60, 20-day change 0.12, with volume ratio v
IsScenarioRow(r, v) ==
    /\ Gt(r.ma20, r.ma50) /\ Gt(r.ma50, r.ma200) /\ Gt(r.ma200, Num(0))
    /\ r.ma_aligned
    /\ r.position_52w = Num(70)
    /\ r.rsi = Num(60)
    /\ r.price_change_20d = Q(12, 100)
    /\ r.volume_ratio = v

\* C2 as stated: with the volume ratio of the scenario row changed to 0.5
\* the classifier returns a stage whose score is 80, 70 or 60.
C2_AsStated ==
    (cpc = "classified" /\ IsScenarioRow(row, Q(5, 10))) => stage.score \in {80, 70, 60}

\* C2 amended: the scenario row with volume ratio 1.4 is classified 90; with
\* the volume ratio changed to 0.5 no rule matches and the classifier
\* returns (50, "Neutral"), never 90.
C2_VolumeDropIsNeutral ==
    cpc = "classified" =>
        /\ IsScenarioRow(row, Q(14, 10)) => stage = StageOf(90, "Stage 2 Mid (Strong Uptrend)")
        /\ IsScenarioRow(row, Q(5, 10)) => stage = StageOf(50, "Neutral")

C2_Witness ==
    /\ cpc = "classified"
    /\ IsScenarioRow(row, Q(5, 10))
    /\ stage.score = 50

\* C3: whenever MA50 or MA200 of the row is NaN or exactly zero the
\* classifier returns (50, "Insufficient Data") whatever the other fields.
C3_InsufficientRow ==
    (/\ cpc = "classified"
     /\ \/ row.ma50.d = 0
        \/ row.ma200.d = 0
        \/ row.ma50.n = 0
        \/ row.ma200.n = 0) => stage = StageOf(50, "Insufficient Data")

\* a row that rule 1 would give 90 but for its undefined MA200
C3_Witness ==
    /\ cpc = "classified"
    /\ row.ma200 = NaN /\ row.ma50 = Num(100)
    /\ CondStrongUptrend(row)
    /\ stage.label = "Insufficient Data"

(***************************************************************************)
(* Claims about analyze_stock (checked under SpecAnalyze)                  *)
(***************************************************************************)
Called == last # NoValue

\* the number of price rows of the instrument the last call was about
BarsOfLast == Len(StockData(prices_df, last.ticker))

\* the last call went through the whole analysis and returned a scored record
Scored == Called /\ ~last.raised /\ BarsOfLast >= 20

LetterGrades == {"S", "A", "B", "C", "D", "F"}

\* C4: with fewer than 20 bars (also none) analyze_stock returns stage
\* "Insufficient Data", final score 0 and the unscorable grade without
\* deriving indicators, classifying or consulting the flow table; with 20
\* bars or more it never returns that grade.
C4_ShortHistoryShortCircuits ==
    Called =>
        /\ BarsOfLast < 20 =>
              /\ ~last.raised
              /\ last.value = [ ticker |-> last.ticker, wave_score |-> 0,
                                wave_stage |-> "Insufficient Data",
                                final_investment_score |-> Num(0),
                                investment_grade |-> "unscorable" ]
              /\ last.calls = {}
        /\ (BarsOfLast >= 20 /\ ~last.raised) =>
              /\ last.value.investment_grade # "unscorable"
              /\ "indicators" \in last.calls

\* a call about an instrument one bar short of 20
C4_Witness ==
    /\ Called
    /\ BarsOfLast = 19
    /\ last.value.investment_grade = "unscorable"

\* C5: for an instrument with at least 20 bars the final score of the
\* record is 0.6 * stage + 1.0 * fundamental + 0.2 * flow of the scores in
\* the same record: 10 * final = 6 * stage + 10 * fundamental + 2 * flow.
C5_FinalScoreFormula ==
    Scored =>
        LET v == last.value
        IN  10 * v.final_investment_score.n =
                (6 * v.wave_score + 10 * v.fundamental_score + 2 * v.supply_demand_score)
                    * v.final_investment_score.d

\* stage 80, fundamental 20, flow 85: final 85
C5_Witness ==
    /\ Scored
    /\ last.value.wave_score = 80
    /\ last.value.fundamental_score = 20
    /\ last.value.supply_demand_score = 85
    /\ last.value.final_investment_score = Num(85)

\* C6: the grade of a scored instrument depends on the final score alone,
\* with inclusive lower bounds 85, 75, 65, 55, 45 for S, A, B, C, D and F
\* below 45.
C6_GradeThresholds ==
    Scored =>
        LET f == last.value.final_investment_score
            g == last.value.investment_grade
        IN  /\ g \in LetterGrades
            /\ (g = "S") <=> Ge(f, Num(85))
            /\ (g = "A") <=> (Ge(f, Num(75)) /\ Lt(f, Num(85)))
            /\ (g = "B") <=> (Ge(f, Num(65)) /\ Lt(f, Num(75)))
            /\ (g = "C") <=> (Ge(f, Num(55)) /\ Lt(f, Num(65)))
            /\ (g = "D") <=> (Ge(f, Num(45)) /\ Lt(f, Num(55)))
            /\ (g = "F") <=> Lt(f, Num(45))

\* a final score on a threshold
C6_Witness ==
    /\ Scored
    /\ last.value.final_investment_score = Num(85)
    /\ last.value.investment_grade = "S"

\* the flow table holds no row of ticker t (or there is no flow table)
NoFlowRow(t) ==
    \/ ~institutional_df.present
    \/ \A k \in 1..Len(institutional_df.rows) : institutional_df.rows[k].ticker # t

WellFormed(t) ==
    \A k \in 1..Len(prices_df) : prices_df[k].ticker = t => ~prices_df[k].close.text

\* C7: for a well-formed instrument with at least 20 bars and no row in the
\* flow table (or no flow table) analyze_stock returns normally with flow
\* score 0 and flow label "N/A", a stage and fundamental score, the final
\* score 0.6 * stage + fundamental, and a letter grade S..F.
C7_MissingFlowIsNotAnError ==
    (Called /\ BarsOfLast >= 20 /\ WellFormed(last.ticker) /\ NoFlowRow(last.ticker)) =>
        /\ ~last.raised
        /\ LET v == last.value
           IN  /\ v.supply_demand_score = 0
               /\ v.supply_demand_stage = "N/A"
               /\ v.wave_score \in {30, 40, 50, 60, 70, 80, 90}
               /\ v.fundamental_score \in 10..20
               /\ 10 * v.final_investment_score.n =
                      (6 * v.wave_score + 10 * v.fundamental_score) * v.final_investment_score.d
               /\ v.investment_grade \in LetterGrades
               /\ v.wave_stage # "Error"

\* a flow table with rows, none of them for the instrument analysed
C7_Witness ==
    /\ Scored
    /\ institutional_df.present /\ institutional_df.rows # <<>>
    /\ NoFlowRow(last.ticker)
    /\ last.value.investment_grade \in LetterGrades

(***************************************************************************)
(* Claims about analyze_all_stocks (checked under Spec)                    *)
(***************************************************************************)
TickerSet == {prices_df[k].ticker : k \in 1..Len(prices_df)}

\* the instrument analysed alone: an analyzer that holds its rows only
Alone(t) == analyze_stock(StockData(prices_df, t), institutional_df, t)

\* what the batch has to record for ticker t
Expected(t) ==
    IF Alone(t).raised
    THEN [ ticker |-> t, wave_score |-> 0, wave_stage |-> "Error",
           final_investment_score |-> Num(0), investment_grade |-> "analysis error" ]
    ELSE Alone(t).value

\* C8: for any universe in which some instruments carry a malformed record
\* the batch run is never aborted: every pass of the loop records one
\* result, and the run returns exactly one result per ticker, the error
\* record for each instrument whose analysis raises and for every other
\* instrument the result it gets when analysed alone.
C8_BatchIsolation ==
    /\ pc # "raised"
    /\ pc = "loop" =>
          /\ Len(results) = idx - 1
          /\ \A k \in 1..Len(results) : results[k] = Expected(tickers[k])
          /\ idx \in 1..(Len(tickers) + 1)
          /\ idx = Len(tickers) + 1 => sort_values(results) # {}
    /\ pc = "done" =>
          /\ Len(result_df) = Cardinality(TickerSet)
          /\ \A t \in TickerSet :
                \E k \in 1..Len(result_df) :
                    /\ result_df[k] = Expected(t)
                    /\ \A j \in 1..Len(result_df) : result_df[j].ticker = t => j = k

Occurrences(sq, x) == Cardinality({k \in 1..Len(sq) : sq[k] = x})

\* C9: the returned table is a permutation of the per-instrument results,
\* in non-increasing order of final score.
C9_SortedPermutation ==
    pc = "done" =>
        /\ Len(result_df) = Len(results)
        /\ \A k \in 1..Len(results) :
              Occurrences(result_df, results[k]) = Occurrences(results, results[k])
        /\ \A k \in 1..(Len(result_df) - 1) :
              Ge(result_df[k].final_investment_score, result_df[k + 1].final_investment_score)

\* a finished batch whose results were appended in increasing order of score
C9_Witness ==
    /\ pc = "done"
    /\ Len(results) >= 2
    /\ Lt(results[1].final_investment_score, results[2].final_investment_score)
    /\ result_df # results

\* position of ticker t in the order the loop iterated
IterationIndex(t) == CHOOSE k \in 1..Len(tickers) : tickers[k] = t

\* C10: results with equal final score keep the order in which the loop
\* iterated their tickers (the sort is stable).
C10_TiesKeepIterationOrder ==
    pc = "done" =>
        \A i, j \in 1..Len(result_df) :
            (i < j /\ Eq(result_df[i].final_investment_score,
                         result_df[j].final_investment_score)) =>
                IterationIndex(result_df[i].ticker) < IterationIndex(result_df[j].ticker)

(***************************************************************************)
(* Claims about the statistics over a run (checked under Spec)             *)
(***************************************************************************)
IsErrorResult(r) == r.wave_stage = "Error"

\* the rows of the returned table that are not error results
NonError == SelectSeq(result_df, LAMBDA r : ~IsErrorResult(r))

\* C11: error results stay in the returned table, and the statistics over
\* the run (count, average final score, grade distribution, top list) are
\* those of the non-error results only.
C11_ErrorsExcludedFromStatistics ==
    /\ pc \in {"done", "saved", "shown"} =>
          \A k \in 1..Len(results) :
              IsErrorResult(results[k]) => \E j \in 1..Len(result_df) : result_df[j] = results[k]
    /\ (pc \in {"saved", "shown"} /\ NonError # <<>>) =>
          /\ summary.total = Len(NonError)
          /\ summary.average = mean(Column(NonError, "final_investment_score"))
          /\ summary.grade_dist = value_counts(Column(NonError, "investment_grade"))
          /\ \A k \in 1..Len(summary.top) : ~IsErrorResult(summary.top[k])
    /\ (pc = "shown" /\ NonError # <<>>) =>
          /\ stats.total_stocks = Len(NonError)
          /\ stats.avg_score = mean(Column(NonError, "final_investment_score"))

(***************************************************************************)
(* Claims about repeated runs (checked under Spec)                         *)
(***************************************************************************)
Returned == pc \in {"done", "saved", "shown"}

FlowScored == fpc = "scored"

\* the points of one investor class; an entry the dict does not hold gives
\* none
ClassPoints(m, keys) ==
    (IF keys.sum20 \in DOMAIN m /\ m[keys.sum20] > 0 THEN 10 ELSE 0)
    + (IF keys.streak \in DOMAIN m /\ m[keys.streak] >= 3 THEN 10 ELSE 0)
    + (IF keys.ratio \in DOMAIN m /\ Ge(m[keys.ratio], Q(6, 10)) THEN 5 ELSE 0)
    + (IF keys.slope \in DOMAIN m /\ Gt(m[keys.slope], Num(0)) THEN 5 ELSE 0)
    - (IF keys.sum20 \in DOMAIN m /\ m[keys.sum20] < 0 THEN 10 ELSE 0)

RawTotal(m) == 50 + ClassPoints(m, InstKeys) + ClassPoints(m, FrgnKeys)

\* C13: for every metrics input the score lies in 0..100, also when the raw
\* additive total does not, and the stage label is that of the clamped
\* score.
C13_ScoreClamped ==
    FlowScored =>
        /\ sd_result.score \in 0..100
        /\ (DOMAIN metrics # {} /\ RawTotal(metrics) > 100) =>
              /\ sd_result.score = 100
              /\ sd_result.stage = "Strong Accumulation"
        /\ (DOMAIN metrics # {} /\ RawTotal(metrics) \in 0..100) =>
              sd_result.score = RawTotal(metrics)

\* both classes earn every bonus: the raw total is 110
C13_Witness ==
    /\ FlowScored
    /\ DOMAIN metrics # {}
    /\ RawTotal(metrics) = 110
    /\ sd_result.score = 100

\* the scenario: institutional sum +500, streak 4, ratio 0.7, slope > 0;
\* foreign sum -300 and no bonus
ScenarioMetrics ==
    [k \in {"inst_20d_sum", "inst_consecutive_buy", "inst_buy_ratio", "inst_trend_slope",
            "frgn_20d_sum", "frgn_consecutive_buy", "frgn_buy_ratio", "frgn_trend_slope"} |->
        IF k = "inst_20d_sum" THEN 500
        ELSE IF k = "inst_consecutive_buy" THEN 4
        ELSE IF k = "inst_buy_ratio" THEN Q(7, 10)
        ELSE IF k = "inst_trend_slope" THEN Q(1, 2)
        ELSE IF k = "frgn_20d_sum" THEN -300
        ELSE IF k = "frgn_consecutive_buy" THEN 0
        ELSE IF k = "frgn_buy_ratio" THEN Q(1, 2)
        ELSE Num(-1)]

\* C14: for non-empty metrics the score is 50 plus the points of the two
\* classes (+10 sum > 0, +10 streak >= 3, +5 ratio >= 0.6, +5 slope > 0,
\* -10 sum < 0; a sum of 0 or an absent entry gives nothing), clamped to
\* 0..100; the scenario gives 70, "Accumulation".
C14_ScoreFormula ==
    (FlowScored /\ DOMAIN metrics # {}) =>
        /\ sd_result.score =
              (IF RawTotal(metrics) > 100 THEN 100
               ELSE IF RawTotal(metrics) < 0 THEN 0 ELSE RawTotal(metrics))
        /\ DOMAIN metrics = DOMAIN ScenarioMetrics =>
              (metrics = ScenarioMetrics =>
                  sd_result = [score |-> 70, stage |-> "Accumulation"])

C14_Witness ==
    /\ FlowScored
    /\ DOMAIN metrics = DOMAIN ScenarioMetrics
    /\ metrics = ScenarioMetrics
    /\ sd_result.score = 70

\* C15: the label is "Strong Accumulation" from 80, "Accumulation" from 65,
\* "Neutral" from 50, "Distribution" from 35 and "Strong Distribution"
\* below; empty metrics, which is what fewer than 5 rows give, are scored
\* 0, "Unknown".
C15_StageLabels ==
    /\ (fpc \in {"metrics", "scored"} /\ flow_df # NoValue /\ Len(flow_df.rows) < 5) =>
          DOMAIN metrics = {}
    /\ (FlowScored /\ DOMAIN metrics = {}) =>
          sd_result = [score |-> 0, stage |-> "Unknown"]
    /\ (FlowScored /\ DOMAIN metrics # {}) =>
          LET x == sd_result.score
              l == sd_result.stage
          IN  /\ (l = "Strong Accumulation") <=> (x >= 80)
              /\ (l = "Accumulation") <=> (x >= 65 /\ x < 80)
              /\ (l = "Neutral") <=> (x >= 50 /\ x < 65)
              /\ (l = "Distribution") <=> (x >= 35 /\ x < 50)
              /\ (l = "Strong Distribution") <=> (x < 35)

\* four rows of investor data: no metrics, "Unknown"
C15_Witness ==
    /\ FlowScored
    /\ flow_df # NoValue
    /\ Len(flow_df.rows) = 4
    /\ flow_df.cols # {}
    /\ sd_result.stage = "Unknown"

\* the rows of the table among its 20 most recent
Trailing20(df) ==
    {k \in 1..Len(df.rows) :
        Cardinality({j \in 1..Len(df.rows) : df.rows[j].date > df.rows[k].date}) < 20}

\* the number of those on which the class (a column) bought, strictly
BuyDays(df, column) ==
    Cardinality({k \in Trailing20(df) : ~df.rows[k][column].nan /\ df.rows[k][column].v > 0})

HasMetrics == fpc \in {"metrics", "scored"} /\ flow_df # NoValue /\ Len(flow_df.rows) >= 5

\* C20 as stated: for a table of at least 5 rows, also one of fewer than 20,
\* the buy ratio of each class is its number of buy days among the trailing
\* 20 days, divided by 20.
C20_BuyRatioOver20 ==
    HasMetrics =>
        /\ "institutional" \in flow_df.cols =>
              metrics["inst_buy_ratio"] = Q(BuyDays(flow_df, "institutional"), 20)
        /\ "foreign" \in flow_df.cols =>
              metrics["frgn_buy_ratio"] = Q(BuyDays(flow_df, "foreign"), 20)

\* C20: for a table of at least 5 rows the buy ratio of each class is its
\* number of buy days among the trailing 20 rows divided by the number of
\* those rows: by 20 from 20 rows on, by the number of rows below that.
C20_BuyRatioOverAvailableDays ==
    HasMetrics =>
        /\ "institutional" \in flow_df.cols =>
              metrics["inst_buy_ratio"] =
                  Q(BuyDays(flow_df, "institutional"), Cardinality(Trailing20(flow_df)))
        /\ "foreign" \in flow_df.cols =>
              metrics["frgn_buy_ratio"] =
                  Q(BuyDays(flow_df, "foreign"), Cardinality(Trailing20(flow_df)))
        /\ Cardinality(Trailing20(flow_df)) =
              (IF Len(flow_df.rows) < 20 THEN Len(flow_df.rows) ELSE 20)

\* ten rows, the institutions buying on each: ratio 1, not 1/2
C20_Witness ==
    /\ HasMetrics
    /\ Len(flow_df.rows) = 10
    /\ "institutional" \in flow_df.cols
    /\ BuyDays(flow_df, "institutional") = 10
    /\ metrics["inst_buy_ratio"] = Num(1)

(***************************************************************************)
(* Claims about the derived indicators (checked under SpecIndicators)      *)
(***************************************************************************)
Derived == ipc = "derived"

\* the window of bar i (14 bars, fewer at the start) holds no fall of the
\* close
NoLossInWindow(i) ==
    \A k \in 1..i : (k > i - 14 /\ k > 1) => series[k].close.v >= series[k - 1].close.v

\* the window of bar i holds a rise of the close
GainInWindow(i) ==
    \E k \in 1..i : k > i - 14 /\ k > 1 /\ series[k].close.v > series[k - 1].close.v

\* C16: the RSI of every bar lies in [0, 100]; where the average loss over
\* the trailing 14 bars is 0 it is exactly 50, also when the average gain
\* is positive; it is never 100.
C16_RsiRange ==
    Derived =>
        \A i \in 1..Len(indicators) :
            /\ Ge(indicators[i].rsi, Num(0))
            /\ Le(indicators[i].rsi, Num(100))
            /\ indicators[i].rsi # Num(100)
            /\ NoLossInWindow(i) => indicators[i].rsi = Num(50)

\* a bar whose window holds rises and no fall, with RSI 50
C16_Witness ==
    /\ Derived
    /\ \E i \in 1..Len(indicators) :
          /\ i >= 15
          /\ NoLossInWindow(i)
          /\ GainInWindow(i)
          /\ indicators[i].rsi = Num(50)

\* the PriceBar invariant on the fields the derivation reads: the high is
\* not below the close or the low, the volume is not negative, the dates
\* increase
PriceBarInvariant ==
    /\ \A k \in 1..Len(series) :
          /\ series[k].high >= series[k].close.v
          /\ series[k].high >= series[k].low
          /\ series[k].volume >= 0
    /\ \A k \in 2..Len(series) : series[k - 1].date < series[k].date

\* the close of every bar lies between its low and its high
CloseWithinBar ==
    \A k \in 1..Len(series) :
        series[k].low <= series[k].close.v /\ series[k].close.v <= series[k].high

PositionInRange(i) ==
    ~IsNaN(indicators[i].position_52w) =>
        Ge(indicators[i].position_52w, Num(0)) /\ Le(indicators[i].position_52w, Num(100))

\* C18 as stated: for every series that satisfies the PriceBar invariant the
\* 52-week position of every bar where it is defined lies in [0, 100].
C18_PositionInRange ==
    (Derived /\ PriceBarInvariant) => \A i \in 1..Len(indicators) : PositionInRange(i)

\* C18, amended: for every series that satisfies the PriceBar invariant and
\* whose every bar has low <= close <= high, the 52-week position of every
\* bar where it is defined lies in [0, 100].
C18_PositionInRangeOfOrderedBars ==
    (Derived /\ PriceBarInvariant /\ CloseWithinBar) =>
        \A i \in 1..Len(indicators) : PositionInRange(i)

\* an ordered series with a bar at the bottom and a bar at the top of its
\* 52-week range
C18_Witness ==
    /\ Derived /\ PriceBarInvariant /\ CloseWithinBar
    /\ \E i \in 1..Len(indicators) :
          Gt(indicators[i].high_52w, indicators[i].low_52w)
              /\ indicators[i].position_52w = Num(0)
    /\ \E i \in 1..Len(indicators) : indicators[i].position_52w = Num(100)

(***************************************************************************)
(* Zero denominators in a call of analyze_stock (checked under SpecAnalyze)*)
(***************************************************************************)
\* the rows of the instrument of the last call, and the latest of them
RowsOfLast == StockData(prices_df, last.ticker)
LatestBar == RowsOfLast[Len(RowsOfLast)]

\* the call reached the derivation and every close it read is a number
Derivable ==
    /\ Called
    /\ BarsOfLast >= 20
    /\ \A k \in 1..BarsOfLast : ~RowsOfLast[k].close.text

\* the trailing 20 bars traded nothing: their volume moving average is 0
ZeroVolumeMA ==
    \A k \in 1..BarsOfLast : k > BarsOfLast - 20 => RowsOfLast[k].volume = 0

\* every bar has the same high and the same low, and they are equal: the
\* 52-week range is flat
FlatRange ==
    \A j, k \in 1..BarsOfLast :
        RowsOfLast[j].high = RowsOfLast[k].low /\ RowsOfLast[j].low = RowsOfLast[k].low

WaveLabels ==
    {"Stage 2 Mid (Strong Uptrend)", "Stage 2 Early (Early Uptrend)",
     "Stage 1-2 Transition", "Stage 4 (Decline)", "Stage 3 (Distribution)",
     "Stage 1 (Base)", "General Uptrend", "Neutral", "Insufficient Data"}

\* the record went through every step and carries numbers and a letter grade
ScoredNormally ==
    /\ ~last.raised
    /\ last.calls = {"indicators", "classify", "fundamental", "flow"}
    /\ last.value.wave_stage \in WaveLabels
    /\ last.value.investment_grade \in LetterGrades
    /\ ~IsNaN(last.value.volume_ratio)
    /\ ~IsNaN(last.value.position_52w)
    /\ ~IsNaN(last.value.rsi)
    /\ ~IsNaN(last.value.final_investment_score)

\* C17: a zero denominator never surfaces as an error or an undefined value:
\* with a 20-bar volume moving average of 0 the volume ratio is volume / 1,
\* with a flat 52-week range the position is (close - low) / 1 * 100, and in
\* both cases the instrument is classified and scored.
C17_ZeroDenominators ==
    Derivable =>
        /\ ZeroVolumeMA =>
              /\ ScoredNormally
              /\ last.value.volume_ratio = Round2(Num(LatestBar.volume))
        /\ FlatRange =>
              /\ ScoredNormally
              /\ last.value.position_52w =
                    Round2(Num((LatestBar.close.v - LatestBar.low) * 100))

\* a priced instrument that never traded, scored with volume ratio 0
C17_Witness ==
    /\ Derivable
    /\ ZeroVolumeMA
    /\ ~FlatRange
    /\ last.value.volume_ratio = Num(0)
    /\ last.value.wave_stage # "Insufficient Data"

(***************************************************************************)
(* Claims about the fundamental score (checked under SpecFundamental)      *)
(***************************************************************************)
\* the row carries both fields the function reads, as every derived row does
HasBothFields == {"volume_ratio", "rsi"} \subseteq DOMAIN row

\* the stated points, on the numerator and the denominator of the value
VolumePoints(v) ==
    IF v.d = 0 THEN 0
    ELSE IF 10 * v.n >= 15 * v.d THEN 5
    ELSE IF 10 * v.n >= 12 * v.d THEN 3
    ELSE 0

RsiPoints(x) ==
    IF x.d = 0 THEN 0
    ELSE IF 50 * x.d <= x.n /\ x.n <= 70 * x.d THEN 5
    ELSE IF 40 * x.d <= x.n /\ x.n < 50 * x.d THEN 2
    ELSE 0

StatedScore == 10 + VolumePoints(row.volume_ratio) + RsiPoints(row.rsi)

\* C19: the fundamental score is the integer 10 + (5 | 3 | 0 by volume ratio)
\* + (5 | 2 | 0 by RSI); it lies in [0, 20], the cap at 20 never changes it,
\* and it depends on no field other than the volume ratio and the RSI.
C19_FundamentalScore ==
    (upc = "scored" /\ HasBothFields) =>
        /\ fscore \in 0..20
        /\ fscore = StatedScore
        /\ StatedScore <= 20
        /\ \A r \in FundRows :
              (DOMAIN r = DOMAIN row /\ r.volume_ratio = row.volume_ratio /\ r.rsi = row.rsi)
                  => calculate_fundamental_score(r) = fscore

\* a row that earns both full bonuses and reaches 20 without the cap acting
C19_Witness ==
    /\ upc = "scored" /\ HasBothFields
    /\ row.volume_ratio = Q(15, 10)
    /\ row.rsi = Num(70)
    /\ fscore = 20

(***************************************************************************)
(* Claims about the flow metrics, continued (checked under SpecFlow)       *)
(***************************************************************************)
\* the class bought on row k: a number, strictly positive
BuyDay(df, column, k) == ~df.rows[k][column].nan /\ df.rows[k][column].v > 0

\* the length of the run of buy days that ends on the most recent day: the
\* days from which on every day is a buy day
TrailingRun(df, column) ==
    Cardinality({k \in 1..Len(df.rows) :
        \A j \in 1..Len(df.rows) :
            df.rows[j].date >= df.rows[k].date => BuyDay(df, column, j)})

StatedStreak(df, column) ==
    IF TrailingRun(df, column) < 10 THEN TrailingRun(df, column) ELSE 10

\* the most recent row
Latest(df) == CHOOSE k \in 1..Len(df.rows) : \A j \in 1..Len(df.rows) : df.rows[j].date <= df.rows[k].date

\* C21: for a table of at least 5 rows the consecutive-buy streak of each
\* class is min(10, length of the trailing run of strictly positive days),
\* a missing value counting as 0; it is 0 when the most recent day is not a
\* buy day.
C21_ConsecutiveBuy ==
    HasMetrics =>
        /\ "institutional" \in flow_df.cols =>
              /\ metrics["inst_consecutive_buy"] = StatedStreak(flow_df, "institutional")
              /\ ~BuyDay(flow_df, "institutional", Latest(flow_df))
                    => metrics["inst_consecutive_buy"] = 0
        /\ "foreign" \in flow_df.cols =>
              /\ metrics["frgn_consecutive_buy"] = StatedStreak(flow_df, "foreign")
              /\ ~BuyDay(flow_df, "foreign", Latest(flow_df))
                    => metrics["frgn_consecutive_buy"] = 0

\* 21 days of institutional buying give the streak 10, and the foreign class,
\* whose last buy day follows a missing value, has the streak 1
C21_Witness ==
    /\ HasMetrics
    /\ flow_df.cols = {"institutional", "foreign"}
    /\ TrailingRun(flow_df, "institutional") > 10
    /\ metrics["inst_consecutive_buy"] = 10
    /\ TrailingRun(flow_df, "foreign") = 1
    /\ \E k \in 1..Len(flow_df.rows) : flow_df.rows[k].foreign.nan
    /\ metrics["frgn_consecutive_buy"] = 1

(***************************************************************************)
(* Claims about the derived indicators, continued (checked under           *)
(* SpecIndicators)                                                         *)
(***************************************************************************)
\* the position is undefined before the 20th bar, and each percent change
\* over N bars on the bars that have fewer than N + 1 bars of history
ShortWindowsUndefined(i) ==
    /\ i < 20 => IsNaN(indicators[i].position_52w)
    /\ i < 5 + 1 => IsNaN(indicators[i].price_change_5d)
    /\ i < 20 + 1 => IsNaN(indicators[i].price_change_20d)
    /\ i < 60 + 1 => IsNaN(indicators[i].price_change_60d)

\* C22 as stated: every derived field with a minimum window is undefined on
\* the bars that have less history than its window: the 200-day average
\* before the 200th bar, the 52-week position before the 20th, the N-bar
\* percent change with fewer than N + 1 bars.
C22_WindowedFieldsUndefined ==
    Derived =>
        \A i \in 1..Len(indicators) :
            /\ i < 200 => IsNaN(indicators[i].ma200)
            /\ ShortWindowsUndefined(i)

\* the sum of the closes of the bars 1..i
RECURSIVE CloseSum(_)
CloseSum(i) == IF i = 0 THEN 0 ELSE series[i].close.v + CloseSum(i - 1)

\* C22, amended: the 52-week position is undefined before the 20th bar and
\* the N-bar percent change with fewer than N + 1 bars, while the 200-day
\* average is defined on every bar: before the 200th it is the mean of all
\* closes so far; the position is defined from the 20th bar on.
C22_ExpandingAverages ==
    Derived =>
        \A i \in 1..Len(indicators) :
            /\ ShortWindowsUndefined(i)
            /\ i < 200 =>
                  /\ ~IsNaN(indicators[i].ma200)
                  /\ Mul(indicators[i].ma200, Num(i)) = Num(CloseSum(i))
            /\ i >= 20 => ~IsNaN(indicators[i].position_52w)

\* a rising series of 21 bars: the 200-day average of the first bar is its
\* close, the 20-bar change is undefined on bar 20 and defined on bar 21
C22_Witness ==
    /\ Derived
    /\ Len(indicators) = 21
    /\ series[2].close.v > series[1].close.v
    /\ indicators[1].ma200 = Num(series[1].close.v)
    /\ IsNaN(indicators[19].position_52w) /\ ~IsNaN(indicators[20].position_52w)
    /\ IsNaN(indicators[20].price_change_20d) /\ ~IsNaN(indicators[21].price_change_20d)

\* the 20-bar average lies above / below / on the 50-bar average on bar i
Above(i) == Gt(indicators[i].ma20, indicators[i].ma50)
Below(i) == Lt(indicators[i].ma20, indicators[i].ma50)
Level(i) == Eq(indicators[i].ma20, indicators[i].ma50)

\* C23 as stated: golden_cross is true exactly on a bar with MA20 > MA50
\* whose prior bar has MA20 < MA50, death_cross exactly on a bar with
\* MA20 < MA50 whose prior bar has MA20 > MA50; both are false on the first
\* bar and on every bar whose prior bar has MA20 = MA50.
C23_StrictFlip ==
    Derived =>
        \A i \in 1..Len(indicators) :
            /\ indicators[i].golden_cross <=> (i > 1 /\ Above(i) /\ Below(i - 1))
            /\ indicators[i].death_cross <=> (i > 1 /\ Below(i) /\ Above(i - 1))
            /\ (i = 1 \/ Level(i - 1)) =>
                  ~indicators[i].golden_cross /\ ~indicators[i].death_cross

\* C23, amended: golden_cross is true exactly on a bar with MA20 > MA50 whose
\* prior bar has MA20 <= MA50, death_cross exactly on a bar with MA20 < MA50
\* whose prior bar has MA20 >= MA50; both are false on the first bar, and
\* never both true.
C23_FlipFromAtOrBeyond ==
    Derived =>
        \A i \in 1..Len(indicators) :
            /\ indicators[i].golden_cross <=>
                  (i > 1 /\ Above(i) /\ (Below(i - 1) \/ Level(i - 1)))
            /\ indicators[i].death_cross <=>
                  (i > 1 /\ Below(i) /\ (Above(i - 1) \/ Level(i - 1)))
            /\ i = 1 => ~indicators[i].golden_cross /\ ~indicators[i].death_cross
            /\ ~(indicators[i].golden_cross /\ indicators[i].death_cross)

\* a series with a death cross out of equal averages (bar 21 of a fall) and,
\* later, a golden cross out of MA20 < MA50
C23_Witness ==
    /\ Derived
    /\ \E i \in 2..Len(indicators) : Level(i - 1) /\ indicators[i].death_cross
    /\ \E i \in 2..Len(indicators) : Below(i - 1) /\ indicators[i].golden_cross

(***************************************************************************)
(* Claims about the classifier, continued (checked under SpecClassify)     *)
(***************************************************************************)
\* the row with its three flags set to g, d and a
WithFlags(r, g, d, a) ==
    [r EXCEPT !.golden_cross = g, !.death_cross = d, !.ma_aligned = a]

\* C24 as stated: no stage rule reads golden_cross, death_cross or
\* ma_aligned: two rows that differ only in these flags get the same
\* (score, label).
C24_FlagsIgnored ==
    cpc = "classified" =>
        \A g, d, a \in BOOLEAN : classify_wave_stage(WithFlags(row, g, d, a)) = stage

\* C24, amended: no stage rule reads golden_cross or death_cross: two rows
\* that differ only in these two flags get the same (score, label).  The
\* flag ma_aligned is read by rule 1 alone: two rows that differ only in it
\* get different results exactly when one of them is classified 90.
C24_CrossFlagsIgnored ==
    cpc = "classified" =>
        /\ \A g, d \in BOOLEAN :
              classify_wave_stage(WithFlags(row, g, d, row.ma_aligned)) = stage
        /\ LET other == classify_wave_stage([row EXCEPT !.ma_aligned = ~row.ma_aligned])
           IN  other # stage <=> (stage.score = 90 \/ other.score = 90)

\* a row with a golden cross classified 90 that loses the stage with
\* ma_aligned cleared
C24_Witness ==
    /\ cpc = "classified"
    /\ row.golden_cross /\ ~row.death_cross
    /\ row.ma_aligned
    /\ stage.score = 90
    /\ classify_wave_stage([row EXCEPT !.ma_aligned = FALSE]).score # 90

(***************************************************************************)
(* Claims about analyze_stock, continued (checked under SpecAnalyze)       *)
(***************************************************************************)
\* C25: for an instrument of 20 to 50 bars the latest MA50 equals the latest
\* MA200, both being the mean of all closes, so analyze_stock assigns it
\* neither stage 90 nor stage 30.
C25_ShortHistoryNeverStrongNorDecline ==
    (Scored /\ BarsOfLast <= 50) =>
        /\ last.value.ma50 = last.value.ma200
        /\ last.value.wave_score \notin {90, 30}
        /\ last.value.wave_stage \notin
              {"Stage 2 Mid (Strong Uptrend)", "Stage 4 (Decline)"}

\* a falling instrument of exactly 50 bars, MA20 below MA50 and RSI below
\* 40, that is not classified as a decline
C25_Witness ==
    /\ Scored /\ BarsOfLast = 50
    /\ Lt(last.value.ma20, last.value.ma50)
    /\ Lt(last.value.rsi, Num(40))
    /\ last.value.ma50 = last.value.ma200
    /\ last.value.wave_score # 30

\* C26: an instrument whose flow score is 0 (no flow table, no flow row, or
\* an "Unknown" flow result) has a final score of at most 74 and so never
\* the grade S or A.
C26_NoTopGradeWithoutFlow ==
    (Scored /\ last.value.supply_demand_score = 0) =>
        /\ Le(last.value.final_investment_score, Num(74))
        /\ last.value.investment_grade \notin {"S", "A"}

\* a strong uptrend with the full fundamental score and no flow row: 74, B
C26_Witness ==
    /\ Scored
    /\ NoFlowRow(last.ticker)
    /\ last.value.supply_demand_score = 0
    /\ last.value.wave_score = 90
    /\ last.value.fundamental_score = 20
    /\ last.value.final_investment_score = Num(74)
    /\ last.value.investment_grade = "B"

(***************************************************************************)
(* Claims about the flow score, continued (checked under SpecFlow)         *)
(***************************************************************************)
\* the 20-day sum of the class is negative and none of its bonuses fires
SellingWithoutBonus(m, keys) ==
    /\ keys.sum20 \in DOMAIN m /\ m[keys.sum20] < 0
    /\ ~(keys.streak \in DOMAIN m /\ m[keys.streak] >= 3)
    /\ ~(keys.ratio \in DOMAIN m /\ Ge(m[keys.ratio], Q(6, 10)))
    /\ ~(keys.slope \in DOMAIN m /\ Gt(m[keys.slope], Num(0)))

\* C27: for non-empty metrics the score is a multiple of 5 in 30..100, the
\* lower clamp never acts, the upper clamp changes only the raw totals 105
\* and 110 (to 100), and the label is "Strong Distribution" exactly when the
\* score is 30: both classes have a negative 20-day sum and no bonus.
C27_ScoreLattice ==
    (FlowScored /\ DOMAIN metrics # {}) =>
        /\ sd_result.score \in {30 + 5 * j : j \in 0..14}
        /\ RawTotal(metrics) >= 30
        /\ sd_result.score # RawTotal(metrics) =>
              RawTotal(metrics) \in {105, 110} /\ sd_result.score = 100
        /\ sd_result.stage = "Strong Distribution" <=> sd_result.score = 30
        /\ sd_result.score = 30 <=>
              (SellingWithoutBonus(metrics, InstKeys) /\ SellingWithoutBonus(metrics, FrgnKeys))

\* both classes selling on every day of a table, no bonus: 30
C27_Witness ==
    /\ FlowScored
    /\ flow_df # NoValue
    /\ SellingWithoutBonus(metrics, InstKeys) /\ SellingWithoutBonus(metrics, FrgnKeys)
    /\ sd_result = [score |-> 30, stage |-> "Strong Distribution"]

(***************************************************************************)
(* Claims about the ranked table, continued (checked under Spec)           *)
(***************************************************************************)
\* the record of an instrument without enough history or of a failed analysis
Sentinel(r) == r.investment_grade \in {"unscorable", "analysis error"}

\* C28: in the table analyze_all_stocks returns every sentinel result
\* (insufficient history or error, final score 0) comes after every scored
\* result, whose final score is at least 28.
C28_SentinelsLast ==
    Returned =>
        /\ \A i, j \in 1..Len(result_df) :
              (Sentinel(result_df[i]) /\ ~Sentinel(result_df[j])) => j < i
        /\ \A i \in 1..Len(result_df) :
              IF Sentinel(result_df[i])
              THEN result_df[i].final_investment_score = Num(0)
              ELSE /\ result_df[i].supply_demand_score >= 0
                   /\ Ge(result_df[i].final_investment_score, Num(28))

\* a table of three in which the instruments analysed first and second are
\* an error and a short history and the one analysed last is scored
C28_Witness ==
    /\ Returned
    /\ Len(results) = 3
    /\ results[1].investment_grade = "analysis error"
    /\ results[2].investment_grade = "unscorable"
    /\ ~Sentinel(results[3])
    /\ ~Sentinel(result_df[1]) /\ Sentinel(result_df[2]) /\ Sentinel(result_df[3])

(***************************************************************************)
(* Claims about analyze_stock: the RSI of an unbroken rise (checked under  *)
(* SpecAnalyze)                                                            *)
(***************************************************************************)
\* none of the last 14 bar-to-bar changes of the instrument is a fall
NoDownClose ==
    \A k \in 2..BarsOfLast :
        k > BarsOfLast - 14 => RowsOfLast[k].close.v >= RowsOfLast[k - 1].close.v

\* C29: an instrument whose close fell on none of the last 14 bar-to-bar
\* changes has the latest RSI 50, so it is never classified 90, however
\* strong its other indicators are.
C29_UnbrokenRiseNeverStrong ==
    (Derivable /\ NoDownClose) =>
        /\ ~last.raised
        /\ last.value.rsi = Num(50)
        /\ last.value.wave_score # 90
        /\ last.value.wave_stage # "Stage 2 Mid (Strong Uptrend)"

\* 61 bars rising on every bar: aligned averages, position between 60 and
\* 90, volume ratio above 1.3, a 20-bar rise of a third, and not stage 90
C29_Witness ==
    /\ Derivable /\ NoDownClose /\ ~last.raised
    /\ BarsOfLast = 61
    /\ Gt(last.value.ma20, last.value.ma50) /\ Gt(last.value.ma50, last.value.ma200)
    /\ Ge(last.value.position_52w, Num(60)) /\ Le(last.value.position_52w, Num(90))
    /\ Ge(last.value.volume_ratio, Q(13, 10))
    /\ 10 * (LatestBar.close.v - RowsOfLast[BarsOfLast - 20].close.v)
          >= RowsOfLast[BarsOfLast - 20].close.v
    /\ last.value.rsi = Num(50)
    /\ last.value.wave_score # 90

(***************************************************************************)
(* Claims about the pipeline (checked under SpecPipeline)                  *)
(***************************************************************************)
\* the scripts in the order the module docstring lists them
StepOrder ==
    << "create_complete_daily_prices.py", "all_institutional_trend_data.py",
       "analysis2.py", "investigate_top_stocks.py" >>

Started(n) == \E k \in 1..Len(launched) : launched[k].script_name = StepOrder[n]

Succeeded(n) ==
    \E k \in 1..Len(launched) :
        launched[k].script_name = StepOrder[n] /\ launched[k].outcome = "ok"

\* the step ran and run_script reported a failure
Failed(n) ==
    \E k \in 1..Len(launched) :
        /\ launched[k].script_name = StepOrder[n]
        /\ launched[k].outcome \in {"missing", "nonzero", "timeout", "error"}

\* run_full_pipeline has returned
Finished == ppc \in {"returned", "exit 0", "exit 1"}

\* the k-th script started is the k-th of the order (no step twice, none out
\* of turn); nothing follows a failed price step; a failed institutional
\* step is followed by the analysis; the AI step starts only after a
\* successful analysis and without skip_ai, and then it does start
OrderOfSteps ==
    /\ Len(launched) <= 4
    /\ \A k \in 1..Len(launched) : launched[k].script_name = StepOrder[k]
    /\ Failed(1) => Len(launched) = 1
    /\ (Finished /\ Failed(2)) => Started(3)
    /\ Started(4) => (Succeeded(3) /\ ~argv.skip_ai)
    /\ (Finished /\ Succeeded(3) /\ ~argv.skip_ai) => Started(4)

RecordedSkipped == "ai" \in DOMAIN pipeline_results /\ pipeline_results["ai"] = "None"

\* C30 as stated: the steps run in the order prices, institutional,
\* analysis, AI, each at most once; nothing is started after a failed price
\* step; a failed institutional step does not prevent the analysis; the AI
\* step is started iff the analysis succeeded and skip_ai is false, and is
\* otherwise recorded as skipped (None).
C30_PipelineOrder ==
    ppc # "unused" =>
        /\ OrderOfSteps
        /\ (Finished /\ ~Started(4)) => RecordedSkipped

\* C30, amended: as stated, but the AI step is recorded as skipped (None)
\* only in the runs whose price step succeeded; after a failed price step
\* the function returns the one entry 'prices': False.
C30_PipelineOrderRecordedPastPrices ==
    ppc # "unused" =>
        /\ OrderOfSteps
        /\ (Finished /\ ~Started(4)) =>
              IF Succeeded(1)
              THEN RecordedSkipped
              ELSE DOMAIN pipeline_results = {"prices"} /\ pipeline_results["prices"] = "False"

\* a run in which the institutional step failed, the analysis ran and
\* succeeded and the AI step was started as the fourth
C30_Witness ==
    /\ Finished
    /\ Failed(2) /\ Succeeded(3) /\ Started(4)
    /\ Len(launched) = 4
    /\ pipeline_results["institutional"] = "False"

====
